---- MODULE Spec2Model ----
(***************************************************************************)
(* The test-execution engine of tests/testlib.py: the outcome classes, the *)
(* policy fixup, _run_test, the test variants' run sequences and the       *)
(* coordinator loop of TestRunner.run over a work queue.                   *)
(***************************************************************************)
EXTENDS Bags, FiniteSets, Integers, Sequences, TLC

VARIABLES
    tests,          \* TestRunner.tests: suite name -> sequence of tests
    pc,             \* position of the coordinator in TestRunner.run
    run_filters,    \* the test_filters handed to run
    pool,           \* number of workers of the WorkQueue created by run
    todo,           \* the (suite, test) pairs the submit loop has not reached
    items,          \* one record per work item handed to add_task
    task_queue,     \* WorkQueue: ids of tasks no worker has taken yet
    worker,         \* WorkQueue: the task each worker is executing (0: idle)
    result_queue,   \* WorkQueue: ids of finished tasks, in completion order
    num_tasks,      \* WorkQueue: tasks added and not yet drained
    results,        \* run's accumulator: suite -> sequence of outcomes
    to_print,       \* outcomes of the drained item not yet given to the printer
    printed,        \* what printer.print_result has received, in order
    drained,        \* ids of the work items whose result get_result returned
    returned,       \* <<TRUE, mapping>> once run has evaluated its return
    n_terminate,    \* calls of workqueue.terminate
    n_join,         \* calls of workqueue.join
    added,          \* the calls of add_suite: the name, and the error raised
    scanned,        \* the directories _scan_test_suite has listed, in order
    device          \* the device's file system: directory -> names of its files

vars == <<tests, pc, run_filters, pool, todo, items, task_queue, worker,
          result_queue, num_tasks, results, to_print, printed, drained,
          returned, n_terminate, n_join, added, scanned, device>>

(***************************************************************************)
(* Bounds of the model.                                                    *)
(***************************************************************************)
MaxWorkers == 2
MaxSuites == 2
MaxTests == 2

None == "None"

Range(s) == {s[i] : i \in DOMAIN s}

Count(s, x) == Cardinality({i \in DOMAIN s : s[i] = x})

SameBag(s, t) == \A x \in Range(s) \cup Range(t) : Count(s, x) = Count(t, x)

RECURSIVE Flatten(_)
Flatten(ss) == IF ss = <<>> THEN <<>> ELSE Head(ss) \o Flatten(Tail(ss))

(***************************************************************************)
(* TestResult and its five subclasses.                                     *)
(***************************************************************************)
Failure(test_name, message) ==
    [variant |-> "Failure", test_name |-> test_name, message |-> message]

Success(test_name) ==
    [variant |-> "Success", test_name |-> test_name]

Skipped(test_name, reason) ==
    [variant |-> "Skipped", test_name |-> test_name, reason |-> reason]

ExpectedFailure(test_name, config, bug) ==
    [variant |-> "ExpectedFailure", test_name |-> test_name,
     config |-> config, bug |-> bug]

UnexpectedSuccess(test_name, config, bug) ==
    [variant |-> "UnexpectedSuccess", test_name |-> test_name,
     config |-> config, bug |-> bug]

isinstance(result, cls) == result.variant = cls

\* Mutant: an UnexpectedSuccess counted as passed.
passed_unexpected_success(result) ==
    result.variant \in {"Success", "ExpectedFailure", "UnexpectedSuccess"}

passed(result) == result.variant \in {"Success", "ExpectedFailure"}

failed(result) == result.variant \in {"Failure", "UnexpectedSuccess"}

_make_subtest_name(test, case) == test \o "." \o case

(***************************************************************************)
(* test_filters.filter(name): a filter is the set of names it rejects.     *)
(***************************************************************************)
filter(filters, name) == name \notin filters

(***************************************************************************)
(* _fixup_expected_failure.                                                *)
(***************************************************************************)
\* Mutants of the fixup: a Failure left raw, a Success left raw, and every
\* classified outcome relabelled.
fixup_keeps_failure(result, config, bug) ==
    IF isinstance(result, "Success")
    THEN UnexpectedSuccess(result.test_name, config, bug)
    ELSE result

fixup_keeps_success(result, config, bug) ==
    IF isinstance(result, "Failure")
    THEN ExpectedFailure(result.test_name, config, bug)
    ELSE result

fixup_relabels(result, config, bug) ==
    IF isinstance(result, "Failure") \/ isinstance(result, "ExpectedFailure")
    THEN ExpectedFailure(result.test_name, config, bug)
    ELSE IF isinstance(result, "Success") \/ isinstance(result, "UnexpectedSuccess")
         THEN UnexpectedSuccess(result.test_name, config, bug)
         ELSE result

_fixup_expected_failure(result, config, bug) ==
    IF isinstance(result, "Failure")
    THEN ExpectedFailure(result.test_name, config, bug)
    ELSE IF isinstance(result, "Success")
         THEN UnexpectedSuccess(result.test_name, config, bug)
         ELSE result

(***************************************************************************)
(* What a generator leaves behind when it is consumed: the outcomes it     *)
(* yielded, whether it ended by raising, and the calls it made.            *)
(***************************************************************************)
Ev(op, arg) == [op |-> op, arg |-> arg]

Gen(yielded, raised, log) == [yielded |-> yielded, raised |-> raised, log |-> log]

join(a, b) == a \o "/" \o b

(***************************************************************************)
(* The build helpers.  env holds what the external tools answer.  The log  *)
(* records each tool that is called and, after it, the (rc, out) pair that *)
(* call_output returned.                                                   *)
(***************************************************************************)
\* "rmtree" stands for the removal of out_dir if it exists.
_prep_build_dir(src_dir, out_dir) ==
    <<Ev("rmtree", out_dir), Ev("copytree", out_dir)>>

\* rc, out = util.call_output(cmd)
call_output(cmd, arg, rc, out) ==
    <<Ev(cmd, arg), Ev("status", ToString(rc)), Ev("captured", out)>>

_run_build_sh_test(test_name, build_dir, test_dir, env) ==
    Gen(<<IF env.rc = 0 THEN Success(test_name) ELSE Failure(test_name, env.out)>>,
        FALSE,
        _prep_build_dir(test_dir, build_dir)
        \o call_output("build.sh", build_dir, env.rc, env.out))

_run_ndk_build_test(test_name, build_dir, test_dir, env) ==
    Gen(<<IF env.rc = 0 THEN Success(test_name) ELSE Failure(test_name, env.out)>>,
        FALSE,
        _prep_build_dir(test_dir, build_dir)
        \o call_output("ndk-build", build_dir, env.rc, env.out))

VersionLess(v, w) == v[1] < w[1] \/ (v[1] = w[1] /\ v[2] < w[2])

\* The output of 'cmake --version'.
VersionText(v) == "cmake version " \o ToString(v[1]) \o "." \o ToString(v[2]) \o "."

\* Mutant: the build step run whatever the configure step returned.
run_cmake_build_test_builds_anyway(test_name, build_dir, test_dir, env) ==
    LET prep == _prep_build_dir(test_dir, build_dir)
                \o call_output("cmake --version", build_dir, env.version_rc,
                               IF env.version_rc = 0 THEN VersionText(env.version)
                               ELSE "cmake: command not found")
        configure == call_output("cmake", build_dir, env.configure_rc, env.out)
        build == call_output("cmake --build", build_dir, env.rc, env.out)
    IN  IF env.version_rc # 0
        THEN Gen(<<Skipped(test_name, "cmake executable not found")>>, FALSE, prep)
        ELSE IF VersionLess(env.version, <<3, 6>>)
        THEN Gen(<<Skipped(test_name, "cmake 3.6 or above required")>>, FALSE, prep)
        ELSE IF env.rc # 0
        THEN Gen(<<Failure(test_name, env.out)>>, FALSE, prep \o configure \o build)
        ELSE Gen(<<Success(test_name)>>, FALSE, prep \o configure \o build)

_run_cmake_build_test(test_name, build_dir, test_dir, env) ==
    LET prep == _prep_build_dir(test_dir, build_dir)
                \o call_output("cmake --version", build_dir, env.version_rc,
                               IF env.version_rc = 0 THEN VersionText(env.version)
                               ELSE "cmake: command not found")
        configure == call_output("cmake", build_dir, env.configure_rc, env.out)
        build == call_output("cmake --build", build_dir, env.rc, env.out)
    IN  IF env.version_rc # 0
        THEN Gen(<<Skipped(test_name, "cmake executable not found")>>, FALSE, prep)
        ELSE IF VersionLess(env.version, <<3, 6>>)
        THEN Gen(<<Skipped(test_name, "cmake 3.6 or above required")>>, FALSE, prep)
        ELSE IF env.configure_rc # 0
        THEN Gen(<<Failure(test_name, env.out)>>, FALSE, prep \o configure)
        ELSE IF env.rc # 0
        THEN Gen(<<Failure(test_name, env.out)>>, FALSE, prep \o configure \o build)
        ELSE Gen(<<Success(test_name)>>, FALSE, prep \o configure \o build)

(***************************************************************************)
(* AwkTest.  test.inputs are the base names of the *.in files of the test  *)
(* directory, in the order glob lists them; run_case returns a result or   *)
(* None, here a sequence of one outcome or of none.  env.awk holds, per    *)
(* input, awk's exit status, the file awk wrote and the golden file: the   *)
(* bytes of each and the modification time of its os.stat signature.       *)
(***************************************************************************)
FileOf(bytes, mtime) == [bytes |-> bytes, mtime |-> mtime]

RECURSIVE Text(_)
Text(bytes) == IF bytes = <<>> THEN "" ELSE Head(bytes) \o Text(Tail(bytes))

\* filecmp._sig: (file type, size, modification time).
_sig(f) == <<"S_IFREG", Len(f.bytes), f.mtime>>

\* filecmp.cmp(f1, f2) with its default shallow=True: equal signatures are
\* taken as equal files, different sizes as different ones, and only then
\* are the contents compared.
filecmp_cmp(f1, f2) ==
    IF _sig(f1) = _sig(f2) THEN TRUE
    ELSE IF Len(f1.bytes) # Len(f2.bytes) THEN FALSE
    ELSE f1.bytes = f2.bytes

\* ''.join(difflib.unified_diff(golden_lines, out_lines, ...)): empty when the
\* lines are the same.
unified_diff(golden, out) ==
    IF golden.bytes = out.bytes THEN ""
    ELSE "--- expected\n+++ actual\n-" \o Text(golden.bytes) \o "\n+" \o Text(out.bytes)

\* Mutant: the golden files not looked for.
AwkTest_from_dir_script_only(dentry) ==
    IF ~dentry.script THEN "RuntimeError" ELSE None

\* What from_dir raises, None when it returns a test: the script
\* build/awk/<name>.awk is missing, or an input has no golden file.
AwkTest_from_dir_raises(dentry) ==
    IF ~dentry.script THEN "RuntimeError"
    ELSE IF \E k \in DOMAIN dentry.inputs : (dentry.inputs[k] \o ".out") \notin dentry.files
    THEN "RuntimeError"
    ELSE None

AwkTest_from_dir(dentry) ==
    [cls |-> "AwkTest", name |-> dentry.name, test_dir |-> dentry.test_dir,
     files |-> dentry.files, inputs |-> dentry.inputs,
     config |-> [build_unsupported |-> None, build_broken |-> <<None, None>>]]

AwkTest_run_case(test, out_dir, test_case, test_filters, env) ==
    LET name == _make_subtest_name(test.name, test_case)
    IN  IF ~filter(test_filters, name) THEN <<>>
        ELSE IF env.awk[test_case].rc # 0 THEN <<Failure(name, "awk failed")>>
        ELSE IF filecmp_cmp(env.awk[test_case].out, env.awk[test_case].golden)
        THEN <<Success(name)>>
        ELSE <<Failure(name, "output does not match expected:\n\n"
                             \o unified_diff(env.awk[test_case].golden,
                                             env.awk[test_case].out))>>

\* The calls of one case: awk, and after exit status 0 the comparison of the
\* two files, recorded with what each holds.
AwkTest_case_log(test, test_case, test_filters, env) ==
    IF ~filter(test_filters, _make_subtest_name(test.name, test_case)) THEN <<>>
    ELSE IF env.awk[test_case].rc # 0 THEN <<Ev("awk", test_case)>>
    ELSE <<Ev("awk", test_case),
           Ev("filecmp.out", Text(env.awk[test_case].out.bytes)),
           Ev("filecmp.golden", Text(env.awk[test_case].golden.bytes))>>

AwkTest_run(test, out_dir, test_filters, env) ==
    Gen(Flatten([k \in 1..Len(test.inputs) |->
                    AwkTest_run_case(test, out_dir, test.inputs[k], test_filters, env)]),
        FALSE,
        Flatten([k \in 1..Len(test.inputs) |->
                    AwkTest_case_log(test, test.inputs[k], test_filters, env)]))

(***************************************************************************)
(* The platform of a test.  An optional platform is a sequence of no or    *)
(* one level.  jni/Application.mk is absent, or holds no APP_PLATFORM      *)
(* line, or one whose value is given by its parts between the '-' signs:   *)
(* <<"android", "21">> is android-21.                                      *)
(***************************************************************************)
NoApplicationMk == [exists |-> FALSE, app_platform |-> <<>>]

ApplicationMk(app_platform) == [exists |-> TRUE, app_platform |-> app_platform]

Raised(error) == [raised |-> error, value |-> <<>>]

Returns(value) == [raised |-> None, value |-> value]

\* int(api_level_str) for the strings of the model.
int(str) ==
    CASE str = "9" -> Returns(<<9>>)
      [] str = "16" -> Returns(<<16>>)
      [] str = "21" -> Returns(<<21>>)
      [] str = "24" -> Returns(<<24>>)
      [] OTHER -> Raised("ValueError")

\* build.lib.build_support.minimum_platform_level
minimum_platform_level(abi) == IF abi \in {"arm64-v8a", "x86_64", "mips64"} THEN 21 ELSE 9

_platform_from_application_mk(application_mk) ==
    IF ~application_mk.exists THEN Returns(<<>>)
    ELSE IF application_mk.app_platform = <<>> THEN Returns(<<>>)
    ELSE LET parts == application_mk.app_platform[1]
         IN  IF ~(Len(parts) >= 2 /\ parts[1] = "android") THEN Raised("ValueError")
             ELSE IF Len(parts) # 2 THEN Raised("ValueError")
             ELSE int(parts[2])

\* Mutant: jni/Application.mk asked before the platform given by the user.
infer_prefers_application_mk(platform_from_user, application_mk, abi) ==
    LET k(from_mk) ==
            IF from_mk.raised # None THEN from_mk
            ELSE IF from_mk.value # <<>> THEN from_mk
            ELSE IF platform_from_user # <<>> THEN Returns(platform_from_user)
            ELSE Returns(<<minimum_platform_level(abi)>>)
    IN  k(_platform_from_application_mk(application_mk))

_get_or_infer_app_platform(platform_from_user, application_mk, abi) ==
    LET k(from_mk) ==
            IF from_mk.raised # None THEN from_mk
            ELSE IF from_mk.value # <<>> THEN from_mk
            ELSE Returns(<<minimum_platform_level(abi)>>)
    IN  IF platform_from_user # <<>> THEN Returns(platform_from_user)
        ELSE k(_platform_from_application_mk(application_mk))

\* PythonBuildTest.__init__ and ShellBuildTest.__init__
minimum_unless_given(platform, abi) ==
    IF platform = <<>> THEN Returns(<<minimum_platform_level(abi)>>)
    ELSE Returns(platform)

\* The platform the __init__ of a build variant passes to BuildTest.__init__.
BuildTest_platform(cls, dentry) ==
    IF cls \in {"PythonBuildTest", "ShellBuildTest"}
    THEN minimum_unless_given(dentry.platform, dentry.abi)
    ELSE _get_or_infer_app_platform(dentry.platform, dentry.application_mk, dentry.abi)

(***************************************************************************)
(* BuildTest.from_dir and the run of the four build variants.              *)
(***************************************************************************)
\* Mutant: the CMake descriptor looked for before build.sh.
BuildTest_from_dir_cmake_first(dentry) ==
    LET cls == IF "test.py" \in dentry.files THEN "PythonBuildTest"
               ELSE IF "CMakeLists.txt" \in dentry.files THEN "CMakeBuildTest"
               ELSE IF "build.sh" \in dentry.files THEN "ShellBuildTest"
               ELSE "NdkBuildTest"
        made(p) ==
            [cls |-> cls, name |-> dentry.name, test_dir |-> dentry.test_dir,
             files |-> dentry.files, config |-> dentry.config,
             abi |-> dentry.abi,
             platform |-> IF p.raised = None THEN p.value[1] ELSE 0]
    IN  made(BuildTest_platform(cls, dentry))

\* What the construction raises, None when it returns a test.
BuildTest_from_dir_raises(dentry) ==
    LET cls == IF "test.py" \in dentry.files THEN "PythonBuildTest"
               ELSE IF "build.sh" \in dentry.files THEN "ShellBuildTest"
               ELSE IF "CMakeLists.txt" \in dentry.files THEN "CMakeBuildTest"
               ELSE "NdkBuildTest"
    IN  BuildTest_platform(cls, dentry).raised

BuildTest_from_dir(dentry) ==
    LET cls == IF "test.py" \in dentry.files THEN "PythonBuildTest"
               ELSE IF "build.sh" \in dentry.files THEN "ShellBuildTest"
               ELSE IF "CMakeLists.txt" \in dentry.files THEN "CMakeBuildTest"
               ELSE "NdkBuildTest"
        made(p) ==
            [cls |-> cls, name |-> dentry.name, test_dir |-> dentry.test_dir,
             files |-> dentry.files, config |-> dentry.config,
             abi |-> dentry.abi,
             platform |-> IF p.raised = None THEN p.value[1] ELSE 0]
    IN  made(BuildTest_platform(cls, dentry))

PythonBuildTest_run(test, out_dir, env) ==
    LET build_dir == join(out_dir, test.name)
    IN  Gen(<<IF env.rc = 0 THEN Success(test.name) ELSE Failure(test.name, env.out)>>,
            FALSE,
            _prep_build_dir(test.test_dir, build_dir) \o <<Ev("test.py", build_dir)>>)

ShellBuildTest_run(test, out_dir, env) ==
    LET build_dir == join(out_dir, test.name)
        on(g) == Gen(g.yielded, g.raised, <<Ev("os.name", env.os_name)>> \o g.log)
    IN  IF env.os_name = "nt"
        THEN Gen(<<Skipped(test.name, "build.sh tests are not supported on Windows")>>,
                 FALSE, <<Ev("os.name", env.os_name)>>)
        ELSE on(_run_build_sh_test(test.name, build_dir, test.test_dir, env))

NdkBuildTest_run(test, out_dir, env) ==
    _run_ndk_build_test(test.name, join(out_dir, test.name), test.test_dir, env)

CMakeBuildTest_run(test, out_dir, env) ==
    _run_cmake_build_test(test.name, join(out_dir, test.name), test.test_dir, env)

(***************************************************************************)
(* The device.  A product file is a record (base, ext); its name is        *)
(* base \o ext and name.endswith('.so') is ext = ".so".  Every device call *)
(* is logged when it is issued; env.fail_at is the number of the device    *)
(* call that raises (0: none does).                                        *)
(***************************************************************************)
DeviceOps == {"ensure", "push", "chmod", "exec", "rm"}

DevCount(log) == Cardinality({i \in DOMAIN log : log[i].op \in DeviceOps})

DevRaises(log, env) == env.fail_at = DevCount(log) + 1

FileName(f) == f.base \o f.ext

endswith_so(f) == f.ext = ".so"

(***************************************************************************)
(* _copy_test_to_device: the loop over os.listdir(abi_dir), one file per   *)
(* step, then the check that a case is left.                               *)
(***************************************************************************)
RECURSIVE CopyFiles(_, _, _, _, _)
\* Mutant: gdbserver and gdb.setup treated like every other product file.
CopyFiles_with_helpers(files, test_name, test_filters, env, acc) ==
    IF files = <<>> \/ acc.raised THEN acc
    ELSE LET f == Head(files)
             test_file == FileName(f)
             rest == Tail(files)
         IN  IF ~endswith_so(f)
                /\ ~filter(test_filters, _make_subtest_name(test_name, test_file))
             THEN CopyFiles(rest, test_name, test_filters, env, acc)
             ELSE LET cases == IF endswith_so(f) THEN acc.test_cases
                               ELSE Append(acc.test_cases, test_file)
                      pushed == Append(acc.log, Ev("push", test_file))
                  IN  IF DevRaises(acc.log, env)
                      THEN [test_cases |-> cases, raised |-> TRUE, log |-> pushed]
                      ELSE IF endswith_so(f)
                      THEN CopyFiles(rest, test_name, test_filters, env,
                               [test_cases |-> cases, raised |-> FALSE, log |-> pushed])
                      ELSE CopyFiles(rest, test_name, test_filters, env,
                               [test_cases |-> cases,
                                raised |-> DevRaises(pushed, env),
                                log |-> Append(pushed, Ev("chmod", test_file))])

\* Mutant: the filter asked for every product file, libraries included.
CopyFiles_filters_libraries(files, test_name, test_filters, env, acc) ==
    IF files = <<>> \/ acc.raised THEN acc
    ELSE LET f == Head(files)
             test_file == FileName(f)
             rest == Tail(files)
         IN  IF test_file \in {"gdbserver", "gdb.setup"}
             THEN CopyFiles(rest, test_name, test_filters, env, acc)
             ELSE IF ~filter(test_filters, _make_subtest_name(test_name, test_file))
             THEN CopyFiles(rest, test_name, test_filters, env, acc)
             ELSE LET cases == IF endswith_so(f) THEN acc.test_cases
                               ELSE Append(acc.test_cases, test_file)
                      pushed == Append(acc.log, Ev("push", test_file))
                  IN  IF DevRaises(acc.log, env)
                      THEN [test_cases |-> cases, raised |-> TRUE, log |-> pushed]
                      ELSE IF endswith_so(f)
                      THEN CopyFiles(rest, test_name, test_filters, env,
                               [test_cases |-> cases, raised |-> FALSE, log |-> pushed])
                      ELSE CopyFiles(rest, test_name, test_filters, env,
                               [test_cases |-> cases,
                                raised |-> DevRaises(pushed, env),
                                log |-> Append(pushed, Ev("chmod", test_file))])

CopyFiles(files, test_name, test_filters, env, acc) ==
    IF files = <<>> \/ acc.raised THEN acc
    ELSE LET f == Head(files)
             test_file == FileName(f)
             rest == Tail(files)
         IN  IF test_file \in {"gdbserver", "gdb.setup"}
             THEN CopyFiles(rest, test_name, test_filters, env, acc)
             ELSE IF ~endswith_so(f)
                     /\ ~filter(test_filters, _make_subtest_name(test_name, test_file))
             THEN CopyFiles(rest, test_name, test_filters, env, acc)
             ELSE LET cases == IF endswith_so(f) THEN acc.test_cases
                               ELSE Append(acc.test_cases, test_file)
                      pushed == Append(acc.log, Ev("push", test_file))
                  IN  IF DevRaises(acc.log, env)
                      THEN [test_cases |-> cases, raised |-> TRUE, log |-> pushed]
                      ELSE IF endswith_so(f)
                      THEN CopyFiles(rest, test_name, test_filters, env,
                               [test_cases |-> cases, raised |-> FALSE, log |-> pushed])
                      ELSE CopyFiles(rest, test_name, test_filters, env,
                               [test_cases |-> cases,
                                raised |-> DevRaises(pushed, env),
                                log |-> Append(pushed, Ev("chmod", test_file))])

\* Mutant: an empty list of cases returned as it is.
copy_test_to_device_allows_none(libs, test_filters, test_name, env, log) ==
    IF ~libs.exists
    THEN [test_cases |-> <<>>, raised |-> TRUE,
          log |-> Append(log, Ev("raise", "No libraries for abi"))]
    ELSE CopyFiles(libs.files, test_name, test_filters, env,
                   [test_cases |-> <<>>, raised |-> FALSE, log |-> log])

_copy_test_to_device(libs, test_filters, test_name, env, log) ==
    IF ~libs.exists
    THEN [test_cases |-> <<>>, raised |-> TRUE,
          log |-> Append(log, Ev("raise", "No libraries for abi"))]
    ELSE LET checked(acc) ==
                 IF acc.raised THEN acc
                 ELSE IF Len(acc.test_cases) = 0
                 THEN [test_cases |-> <<>>, raised |-> TRUE,
                       log |-> Append(acc.log,
                                      Ev("raise", "Could not find any test executables."))]
                 ELSE acc
         IN  checked(CopyFiles(libs.files, test_name, test_filters, env,
                               [test_cases |-> <<>>, raised |-> FALSE, log |-> log]))

(***************************************************************************)
(* DeviceTest: the run-level policy checks and the device protocol.        *)
(***************************************************************************)
check_run_broken(test, subtest, env) == env.cases[subtest].run_broken

\* Mutant: the device's API level not compared with the build platform.
check_run_unsupported_policy_only(test, subtest, env) ==
    env.cases[subtest].run_unsupported

check_run_unsupported(test, subtest, env) ==
    IF test.platform > test.device_platform
    THEN "device platform " \o ToString(test.device_platform)
         \o " < build platform " \o ToString(test.platform)
    ELSE env.cases[subtest].run_unsupported

\* Mutant: a known-broken case reported as ExpectedFailure whatever its
\* exit status.
classify_broken_always_expected(case_name, result, out, broken) ==
    IF broken[1] = None
    THEN IF result = 0 THEN Success(case_name) ELSE Failure(case_name, out)
    ELSE ExpectedFailure(case_name, broken[1], broken[2])

\* The outcome of an executed case, from its exit status, its output and
\* the answer of check_run_broken.
classify(case_name, result, out, broken) ==
    IF broken[1] = None
    THEN IF result = 0 THEN Success(case_name) ELSE Failure(case_name, out)
    ELSE IF result = 0 THEN UnexpectedSuccess(case_name, broken[1], broken[2])
         ELSE ExpectedFailure(case_name, broken[1], broken[2])

RECURSIVE RunCases(_, _, _, _, _)
RunCases(cases, test, test_filters, env, g) ==
    IF cases = <<>> \/ g.raised THEN g
    ELSE LET case == Head(cases)
             rest == Tail(cases)
             case_name == _make_subtest_name(test.name, case)
         IN  IF ~filter(test_filters, case_name)
             THEN RunCases(rest, test, test_filters, env, g)
             ELSE LET config == check_run_unsupported(test, case, env)
                      asked == IF test.platform > test.device_platform THEN g.log
                               ELSE Append(g.log, Ev("run_unsupported", case))
                  IN  IF config # None
                      THEN RunCases(rest, test, test_filters, env,
                               Gen(Append(g.yielded,
                                          Skipped(case_name, "test unsupported for " \o config)),
                                   FALSE, Append(asked, Ev("unsupported", case))))
                      ELSE LET ran == Append(asked, Ev("exec", case))
                               broken == check_run_broken(test, case, env)
                               result == env.cases[case].rc
                               \* the exit status and output the device
                               \* returned, and what run_broken answered
                               answered == <<Ev("exit", ToString(result)),
                                             Ev("output", env.out),
                                             Ev("run_broken", case),
                                             Ev("config", broken[1]),
                                             Ev("bug", broken[2])>>
                           IN  IF DevRaises(asked, env)
                               THEN Gen(g.yielded, TRUE, ran)
                               ELSE RunCases(rest, test, test_filters, env,
                                        Gen(Append(g.yielded,
                                                   classify(case_name, result, env.out, broken)),
                                            FALSE, ran \o answered))

\* Mutant: the directory removed at the end of the try block, not in a finally.
run_device_test_no_finally(test, build_dir, test_dir, test_filters, env, log) ==
    LET device_dir == join(join("/data/local/tmp", test_dir), test.name)
        ensured == Append(log, Ev("ensure", device_dir))
        try(copied) ==
            IF copied.raised THEN Gen(<<>>, TRUE, copied.log)
            ELSE RunCases(copied.test_cases, test, test_filters, env,
                          Gen(<<>>, FALSE, copied.log))
        remove(g) ==
            IF g.raised THEN g
            ELSE Gen(g.yielded, DevRaises(g.log, env),
                     Append(g.log, Ev("rm", device_dir)))
    IN  IF DevRaises(log, env)
        THEN Gen(<<>>, TRUE, ensured)
        ELSE remove(try(_copy_test_to_device(test.libs, test_filters, test.name,
                                             env, ensured)))

\* Mutant: the products copied before the directory is ensured.
run_device_test_copies_first(test, build_dir, test_dir, test_filters, env, log) ==
    LET device_dir == join(join("/data/local/tmp", test_dir), test.name)
        try(copied) ==
            IF copied.raised THEN Gen(<<>>, TRUE, copied.log)
            ELSE RunCases(copied.test_cases, test, test_filters, env,
                          Gen(<<>>, FALSE, Append(copied.log, Ev("ensure", device_dir))))
        finally(g) ==
            Gen(g.yielded, g.raised \/ DevRaises(g.log, env),
                Append(g.log, Ev("rm", device_dir)))
    IN  finally(try(_copy_test_to_device(test.libs, test_filters, test.name,
                                         env, log)))

\* Mutant: the ensure-directory command issued inside the try block.
run_device_test_ensures_in_try(test, build_dir, test_dir, test_filters, env, log) ==
    LET device_dir == join(join("/data/local/tmp", test_dir), test.name)
        ensured == Append(log, Ev("ensure", device_dir))
        try(copied) ==
            IF copied.raised THEN Gen(<<>>, TRUE, copied.log)
            ELSE RunCases(copied.test_cases, test, test_filters, env,
                          Gen(<<>>, FALSE, copied.log))
        finally(g) ==
            Gen(g.yielded, g.raised \/ DevRaises(g.log, env),
                Append(g.log, Ev("rm", device_dir)))
    IN  IF DevRaises(log, env)
        THEN finally(Gen(<<>>, TRUE, ensured))
        ELSE finally(try(_copy_test_to_device(test.libs, test_filters, test.name,
                                              env, ensured)))

run_device_test(test, build_dir, test_dir, test_filters, env, log) ==
    LET device_dir == join(join("/data/local/tmp", test_dir), test.name)
        ensured == Append(log, Ev("ensure", device_dir))
        \* try: copy the products, run the cases
        try(copied) ==
            IF copied.raised THEN Gen(<<>>, TRUE, copied.log)
            ELSE RunCases(copied.test_cases, test, test_filters, env,
                          Gen(<<>>, FALSE, copied.log))
        \* finally: remove the device directory
        finally(g) ==
            Gen(g.yielded, g.raised \/ DevRaises(g.log, env),
                Append(g.log, Ev("rm", device_dir)))
    IN  IF DevRaises(log, env)
        THEN Gen(<<>>, TRUE, ensured)
        ELSE finally(try(_copy_test_to_device(test.libs, test_filters, test.name,
                                              env, ensured)))

\* Mutant: the build's Success yielded before the cases are run.
run_ndk_build_yields_build(test, out_dir, test_filters, env, log) ==
    LET build_dir == join(out_dir, test.name)
        with_build(build_result, g) == Gen(<<build_result>> \o g.yielded, g.raised, g.log)
        after_build(build_result, build_log) ==
            IF ~passed(build_result) \/ test.skip_run
            THEN Gen(<<build_result>>, FALSE, log \o build_log)
            ELSE with_build(build_result,
                            run_device_test(test, build_dir, "ndk-tests", test_filters,
                                            env, log \o build_log))
        built(b) == after_build(b.yielded[1],
                                Append(b.log, Ev("build_result", b.yielded[1].variant)))
    IN  built(_run_ndk_build_test(test.name, build_dir, test.test_dir, env))

\* The log records, after the calls of the build, what the build returned.
run_ndk_build(test, out_dir, test_filters, env, log) ==
    LET build_dir == join(out_dir, test.name)
        after_build(build_result, build_log) ==
            IF ~passed(build_result) \/ test.skip_run
            THEN Gen(<<build_result>>, FALSE, log \o build_log)
            ELSE run_device_test(test, build_dir, "ndk-tests", test_filters, env,
                                 log \o build_log)
        built(b) == after_build(b.yielded[1],
                                Append(b.log, Ev("build_result", b.yielded[1].variant)))
    IN  built(_run_ndk_build_test(test.name, build_dir, test.test_dir, env))

run_cmake_build(test, out_dir, test_filters, env, log) ==
    LET build_dir == join(out_dir, test.name)
        after_build(build_result, build_log) ==
            IF ~passed(build_result) \/ test.skip_run
            THEN Gen(<<build_result>>, FALSE, log \o build_log)
            ELSE run_device_test(test, build_dir, "cmake-tests", test_filters, env,
                                 log \o build_log)
        built(b) == after_build(b.yielded[1],
                                Append(b.log, Ev("build_result", b.yielded[1].variant)))
    IN  built(_run_cmake_build_test(test.name, build_dir, test.test_dir, env))

DeviceTest_from_dir_raises(dentry) ==
    _get_or_infer_app_platform(dentry.platform, dentry.application_mk, dentry.abi).raised

DeviceTest_from_dir(dentry) ==
    LET made(p) ==
            [cls |-> "DeviceTest", name |-> dentry.name, test_dir |-> dentry.test_dir,
             files |-> dentry.files, config |-> dentry.config, libs |-> dentry.libs,
             abi |-> dentry.abi,
             platform |-> IF p.raised = None THEN p.value[1] ELSE 0,
             device_platform |-> dentry.device_platform, skip_run |-> dentry.skip_run]
    IN  made(_get_or_infer_app_platform(dentry.platform, dentry.application_mk,
                                        dentry.abi))

\* Mutant: the CMake pass guarded by the test for jni/Android.mk.
DeviceTest_run_same_guard(test, out_dir, test_filters, env) ==
    LET chain(g1, g2) == Gen(g1.yielded \o g2.yielded, g2.raised, g2.log)
        then_cmake(g1) ==
            IF g1.raised \/ "jni/Android.mk" \notin test.files THEN g1
            ELSE chain(g1, run_cmake_build(test, out_dir, test_filters, env, g1.log))
    IN  then_cmake(IF "jni/Android.mk" \in test.files
                   THEN run_ndk_build(test, out_dir, test_filters, env, <<>>)
                   ELSE Gen(<<>>, FALSE, <<>>))

DeviceTest_run(test, out_dir, test_filters, env) ==
    LET chain(g1, g2) == Gen(g1.yielded \o g2.yielded, g2.raised, g2.log)
        then_cmake(g1) ==
            IF g1.raised \/ "CMakeLists.txt" \notin test.files THEN g1
            ELSE chain(g1, run_cmake_build(test, out_dir, test_filters, env, g1.log))
    IN  then_cmake(IF "jni/Android.mk" \in test.files
                   THEN run_ndk_build(test, out_dir, test_filters, env, <<>>)
                   ELSE Gen(<<>>, FALSE, <<>>))

(***************************************************************************)
(* The build-level policy checks (TestConfig) and the dispatch of run.     *)
(* test.config holds what the test's test_config.py answers for the       *)
(* active (abi, platform, toolchain).                                      *)
(***************************************************************************)
check_build_broken(test) == test.config.build_broken

\* Mutant: the policy's build_unsupported never asked.
check_build_unsupported_none(test) == None

check_build_unsupported(test) == test.config.build_unsupported

Test_run(test, out_dir, test_filters, env) ==
    CASE test.cls = "PythonBuildTest" -> PythonBuildTest_run(test, out_dir, env)
      [] test.cls = "ShellBuildTest" -> ShellBuildTest_run(test, out_dir, env)
      [] test.cls = "CMakeBuildTest" -> CMakeBuildTest_run(test, out_dir, env)
      [] test.cls = "NdkBuildTest" -> NdkBuildTest_run(test, out_dir, env)
      [] test.cls = "DeviceTest" -> DeviceTest_run(test, out_dir, test_filters, env)
      [] test.cls = "AwkTest" -> AwkTest_run(test, out_dir, test_filters, env)

(***************************************************************************)
(* _run_test.  The value is the returned (suite, results) pair, or the     *)
(* exception (raised), with the raw sequence of test.run and the calls     *)
(* made on the way.                                                        *)
(***************************************************************************)
Ret(suite, test_results, raised, raw, log) ==
    [suite |-> suite, results |-> test_results, raised |-> raised,
     raw |-> raw, log |-> log]

\* Mutant: the fixup applied whatever the broken-check answered.
FixupAlways(yielded, config, bug) ==
    [i \in 1..Len(yielded) |-> _fixup_expected_failure(yielded[i], config, bug)]

\* Mutant: the build-level label and bug written over those of an outcome
\* the run-level policy classified.
FixupAll_build_label_wins(yielded, config, bug) ==
    [i \in 1..Len(yielded) |->
        IF config = None THEN yielded[i]
        ELSE IF yielded[i].variant \in {"ExpectedFailure", "UnexpectedSuccess"}
        THEN [yielded[i] EXCEPT !.config = config, !.bug = bug]
        ELSE _fixup_expected_failure(yielded[i], config, bug)]

FixupAll(yielded, config, bug) ==
    [i \in 1..Len(yielded) |->
        IF config # None
        THEN _fixup_expected_failure(yielded[i], config, bug)
        ELSE yielded[i]]

\* Mutants of _run_test: the unsupported check left out, the unsupported check
\* made after the run, and the filter consulted after the policy.
run_test_ignores_unsupported(suite, test, out_dir, test_filters, env) ==
    IF ~filter(test_filters, test.name)
    THEN Ret(suite, <<>>, FALSE, <<>>, <<>>)
    ELSE LET broken == check_build_broken(test)
             collect(g) ==
                 Ret(suite,
                     IF g.raised THEN <<>>
                     ELSE FixupAll(g.yielded, broken[1], broken[2]),
                     g.raised, g.yielded,
                     <<Ev("check_build_broken", test.name), Ev("run", test.name)>>
                     \o g.log)
         IN  collect(Test_run(test, out_dir, test_filters, env))

run_test_skips_after_run(suite, test, out_dir, test_filters, env) ==
    IF ~filter(test_filters, test.name)
    THEN Ret(suite, <<>>, FALSE, <<>>, <<>>)
    ELSE LET config == check_build_unsupported(test)
             broken == check_build_broken(test)
             collect(g, log) ==
                 IF g.raised THEN Ret(suite, <<>>, TRUE, g.yielded, log)
                 ELSE IF config # None
                 THEN Ret(suite,
                          <<Skipped(test.name, "test unsupported for " \o config)>>,
                          FALSE, <<>>, log)
                 ELSE Ret(suite, FixupAll(g.yielded, broken[1], broken[2]), FALSE,
                          g.yielded, log)
             logged(g) ==
                 collect(g, <<Ev("check_build_broken", test.name), Ev("run", test.name)>>
                            \o g.log \o <<Ev("check_build_unsupported", test.name)>>)
         IN  logged(Test_run(test, out_dir, test_filters, env))

run_test_filters_late(suite, test, out_dir, test_filters, env) ==
    LET config == check_build_unsupported(test)
        log1 == <<Ev("check_build_unsupported", test.name)>>
    IN  IF config # None
        THEN Ret(suite, <<Skipped(test.name, "test unsupported for " \o config)>>,
                 FALSE, <<>>, log1)
        ELSE IF ~filter(test_filters, test.name)
        THEN Ret(suite, <<>>, FALSE, <<>>, log1)
        ELSE LET broken == check_build_broken(test)
                 collect(g) ==
                     Ret(suite,
                         IF g.raised THEN <<>>
                         ELSE FixupAll(g.yielded, broken[1], broken[2]),
                         g.raised, g.yielded,
                         log1 \o <<Ev("check_build_broken", test.name),
                                   Ev("run", test.name)>> \o g.log)
             IN  collect(Test_run(test, out_dir, test_filters, env))

\* Mutant: the sequence of test.run handed back unconsumed; the worker
\* returns before any call of the run is made.
run_test_returns_generator(suite, test, out_dir, test_filters, env) ==
    IF ~filter(test_filters, test.name)
    THEN Ret(suite, <<>>, FALSE, <<>>, <<>>)
    ELSE LET config == check_build_unsupported(test)
             log1 == <<Ev("check_build_unsupported", test.name)>>
         IN  IF config # None
             THEN Ret(suite,
                      <<Skipped(test.name, "test unsupported for " \o config)>>,
                      FALSE, <<>>, log1)
             ELSE LET broken == check_build_broken(test)
                      collect(g) ==
                          Ret(suite,
                              IF g.raised THEN <<>>
                              ELSE FixupAll(g.yielded, broken[1], broken[2]),
                              g.raised, g.yielded,
                              log1 \o <<Ev("check_build_broken", test.name),
                                        Ev("run", test.name)>>)
                  IN  collect(Test_run(test, out_dir, test_filters, env))

_run_test(suite, test, out_dir, test_filters, env) ==
    IF ~filter(test_filters, test.name)
    THEN Ret(suite, <<>>, FALSE, <<>>, <<>>)
    ELSE LET config == check_build_unsupported(test)
             log1 == <<Ev("check_build_unsupported", test.name)>>
         IN  IF config # None
             THEN Ret(suite,
                      <<Skipped(test.name, "test unsupported for " \o config)>>,
                      FALSE, <<>>, log1)
             ELSE LET broken == check_build_broken(test)
                      \* the loop over test.run(out_dir, test_filters)
                      collect(g) ==
                          Ret(suite,
                              IF g.raised THEN <<>>
                              ELSE FixupAll(g.yielded, broken[1], broken[2]),
                              g.raised, g.yielded,
                              log1 \o <<Ev("check_build_broken", test.name),
                                        Ev("run", test.name)>> \o g.log)
                  IN  collect(Test_run(test, out_dir, test_filters, env))

from_dir_raises(test_class, dentry) ==
    IF test_class = "DeviceTest" THEN DeviceTest_from_dir_raises(dentry)
    ELSE IF test_class = "AwkTest" THEN AwkTest_from_dir_raises(dentry)
    ELSE BuildTest_from_dir_raises(dentry)

\* The error that ends the scan, that of the first entry whose construction
\* raises; None when the scan returns its list.
_scan_test_suite_raises(dir) ==
    LET raising == {i \in DOMAIN dir.entries :
                       from_dir_raises(dir.test_class, dir.entries[i]) # None}
    IN  IF raising = {} THEN None
        ELSE from_dir_raises(dir.test_class,
                             dir.entries[CHOOSE i \in raising : \A j \in raising : i <= j])

_scan_test_suite(dir) ==
    [i \in 1..Len(dir.entries) |->
        IF dir.test_class = "DeviceTest" THEN DeviceTest_from_dir(dir.entries[i])
        ELSE IF dir.test_class = "AwkTest" THEN AwkTest_from_dir(dir.entries[i])
        ELSE BuildTest_from_dir(dir.entries[i])]

(***************************************************************************)
(* The environment: the answers of the policy files, of the build tools    *)
(* and of the device, and the test directories on disk.                    *)
(***************************************************************************)
NoPolicy == [build_unsupported |-> None, build_broken |-> <<None, None>>]

Unsupported == [build_unsupported |-> "mips", build_broken |-> <<None, None>>]

Broken == [build_unsupported |-> None, build_broken |-> <<"clang", "b/123">>]

UnsupportedAndBroken ==
    [build_unsupported |-> "mips", build_broken |-> <<"clang", "b/123">>]

Policies == {NoPolicy, Unsupported, Broken, UnsupportedAndBroken}

(***************************************************************************)
(* TestConfig and DeviceTestConfig.  A policy file test_config.py is       *)
(* absent or defines a subset of the five functions; a function the file   *)
(* defines answers PolicyAnswers for the active configuration.             *)
(***************************************************************************)
PolicyNames ==
    {"build_broken", "build_unsupported", "extra_cmake_flags", "run_broken",
     "run_unsupported"}

PolicyAnswers ==
    [build_broken |-> <<"clang", "b/123">>, build_unsupported |-> "mips",
     extra_cmake_flags |-> <<"-DEXTRA=1">>, run_broken |-> <<"gcc", "b/7">>,
     run_unsupported |-> "old-device"]

NullTestConfig ==
    [build_broken |-> <<None, None>>, build_unsupported |-> None,
     extra_cmake_flags |-> <<>>, run_broken |-> <<None, None>>,
     run_unsupported |-> None]

PolicyFiles ==
    {[exists |-> FALSE, defs |-> {}]}
    \cup {[exists |-> TRUE, defs |-> defs] : defs \in SUBSET PolicyNames}

\* imp.load_source: the module, or None after the IOError of an absent file.
load_source(file) == IF file.exists THEN file ELSE [exists |-> FALSE, defs |-> {}]

\* try: module.<name>  except AttributeError: NullTestConfig.<name>
attribute_or_null(module, name) ==
    IF module.exists /\ name \in module.defs THEN PolicyAnswers[name]
    ELSE NullTestConfig[name]

\* Mutant: the null configuration used as soon as one function is missing.
TestConfig_all_or_nothing(file) ==
    IF load_source(file).exists
       /\ {"build_broken", "build_unsupported", "extra_cmake_flags"}
              \subseteq load_source(file).defs
    THEN [build_broken |-> PolicyAnswers.build_broken,
          build_unsupported |-> PolicyAnswers.build_unsupported,
          extra_cmake_flags |-> PolicyAnswers.extra_cmake_flags]
    ELSE [build_broken |-> NullTestConfig.build_broken,
          build_unsupported |-> NullTestConfig.build_unsupported,
          extra_cmake_flags |-> NullTestConfig.extra_cmake_flags]

TestConfig(file) ==
    [build_broken |-> attribute_or_null(load_source(file), "build_broken"),
     build_unsupported |-> attribute_or_null(load_source(file), "build_unsupported"),
     extra_cmake_flags |-> attribute_or_null(load_source(file), "extra_cmake_flags")]

DeviceTestConfig(file) ==
    [build_broken |-> TestConfig(file).build_broken,
     build_unsupported |-> TestConfig(file).build_unsupported,
     extra_cmake_flags |-> TestConfig(file).extra_cmake_flags,
     run_broken |-> attribute_or_null(load_source(file), "run_broken"),
     run_unsupported |-> attribute_or_null(load_source(file), "run_unsupported")]

\* What check_build_unsupported and check_build_broken read from the file.
BuildPolicy(file) ==
    [build_unsupported |-> TestConfig(file).build_unsupported,
     build_broken |-> TestConfig(file).build_broken]

Cases(test) ==
    {FileName(test.libs.files[i]) :
        i \in {j \in DOMAIN test.libs.files : ~endswith_so(test.libs.files[j])}}

CMakeAnswers(files) ==
    IF "CMakeLists.txt" \in files
    THEN [version_rc : {0, 1}, version : {<<3, 5>>, <<3, 6>>}, configure_rc : {0, 1}]
    ELSE [version_rc : {0}, version : {<<3, 6>>}, configure_rc : {0}]

\* What the device and the run-level policy answer for one case; the exit
\* status and run_broken are not read when run_unsupported is not None.
CaseAnswers ==
    [rc : {0, 1}, run_unsupported : {None},
     run_broken : {<<None, None>>, <<"gcc", "b/7">>}]
    \cup {[rc |-> 0, run_unsupported |-> "old-device", run_broken |-> <<None, None>>]}

\* The most device calls one run of the test can issue.
MaxDeviceCalls(test) ==
    Cardinality(test.files \cap {"jni/Android.mk", "CMakeLists.txt"})
    * (Len(test.libs.files) + 2 * Cardinality(Cases(test)) + 2)

AwkOutputs ==
    {FileOf(bytes, mtime) :
        bytes \in {<<"a", "b">>, <<"a", "c">>, <<"a">>, <<"a", "b", "\n">>},
        mtime \in {1, 2}}

AwkAnswers ==
    {[rc |-> rc, out |-> out, golden |-> FileOf(<<"a", "b">>, 1)] :
        rc \in {0, 1}, out \in AwkOutputs}

Envs(test) ==
    IF test.cls = "AwkTest"
    THEN {[awk |-> awk] : awk \in [Range(test.inputs) -> AwkAnswers]}
    ELSE IF test.cls = "DeviceTest"
    THEN {[rc |-> rc, out |-> "out", os_name |-> "posix",
           version_rc |-> c.version_rc, version |-> c.version,
           configure_rc |-> c.configure_rc, fail_at |-> fail_at,
           cases |-> cases] :
             rc \in {0, 1}, c \in CMakeAnswers(test.files),
             fail_at \in 0..MaxDeviceCalls(test),
             cases \in [Cases(test) -> CaseAnswers]}
    ELSE {[rc |-> rc, out |-> "out", os_name |-> os_name,
           version_rc |-> c.version_rc, version |-> c.version,
           configure_rc |-> c.configure_rc] :
             rc \in {0, 1}, c \in CMakeAnswers(test.files),
             os_name \in IF test.cls = "ShellBuildTest" THEN {"posix", "nt"}
                         ELSE {"posix"}}

SuiteName(i) == "suite" \o ToString(i)

Filters == {{}, {"b", "a.t1"}}

OutDir == "out"

DefaultAbi == "armeabi-v7a"

\* A test directory and the arguments from_dir is called with: no platform
\* unless stated otherwise.
Dentry(name, files, config) ==
    [name |-> name, test_dir |-> join("tests", name), files |-> files,
     config |-> config, abi |-> DefaultAbi, platform |-> <<>>,
     application_mk |-> NoApplicationMk]

DeviceDentry(name, files, config, libs, platform, device_platform, skip_run) ==
    [name |-> name, test_dir |-> join("tests", name), files |-> files,
     config |-> config, libs |-> libs, abi |-> DefaultAbi, platform |-> <<platform>>,
     application_mk |-> NoApplicationMk, device_platform |-> device_platform,
     skip_run |-> skip_run]

File(base, ext) == [base |-> base, ext |-> ext]

Libs(files) == [exists |-> TRUE, files |-> files]

NoLibs == [exists |-> FALSE, files |-> <<>>]

Disk ==
    {[test_class |-> "BuildTest",
      entries |-> <<Dentry("a", {"jni/Android.mk"}, NoPolicy),
                    Dentry("b", {"jni/Android.mk"}, Broken)>>],
     [test_class |-> "DeviceTest",
      entries |-> <<DeviceDentry("a", {"jni/Android.mk"}, NoPolicy,
                                 Libs(<<File("t1", ""), File("t2", "")>>),
                                 21, 16, FALSE)>>],
     [test_class |-> "BuildTest",
      entries |-> <<Dentry("c", {"build.sh"}, Unsupported)>>],
     [test_class |-> "BuildTest", entries |-> <<>>]}

(***************************************************************************)
(* What the device commands of a work item do to the device: 'ls d ||      *)
(* mkdir d' creates d when it is absent and leaves it as it is otherwise,  *)
(* a push adds the file to the directory of the protocol, 'rm -r d'        *)
(* removes d.  found records what each protocol found in its directory     *)
(* after the ensure-directory command returned.                            *)
(***************************************************************************)
NoDirs == [d \in {} |-> {}]

ensure_dir(dev, dir) ==
    IF dir \in DOMAIN dev THEN dev
    ELSE [d \in DOMAIN dev \cup {dir} |-> IF d = dir THEN {} ELSE dev[d]]

push(dev, dir, file) == [dev EXCEPT ![dir] = @ \cup {file}]

rm_r(dev, dir) == [d \in DOMAIN dev \ {dir} |-> dev[d]]

RECURSIVE Replay(_, _, _, _)
Replay(out, k, dir, st) ==
    IF k > Len(out.log) THEN st
    ELSE LET e == out.log[k]
         IN  IF e.op = "ensure"
             THEN IF out.raised /\ k = Len(out.log) THEN st
                  ELSE Replay(out, k + 1, e.arg,
                              [device |-> ensure_dir(st.device, e.arg),
                               found |-> Append(st.found,
                                                [dir |-> e.arg,
                                                 files |-> ensure_dir(st.device, e.arg)[e.arg]])])
             ELSE IF e.op = "push"
             THEN Replay(out, k + 1, dir,
                         [st EXCEPT !.device = push(st.device, dir, e.arg)])
             ELSE IF e.op = "rm"
             THEN Replay(out, k + 1, dir, [st EXCEPT !.device = rm_r(st.device, e.arg)])
             ELSE Replay(out, k + 1, dir, st)

OnDevice(dev, out) == Replay(out, 1, "", [device |-> dev, found |-> <<>>])

(***************************************************************************)
(* TestRunner.__init__ and add_suite.                                      *)
(***************************************************************************)
NoOut == Ret("", <<>>, FALSE, <<>>, <<>>)

Init ==
    /\ tests = <<>>
    /\ pc = "idle"
    /\ run_filters = {}
    /\ pool = 0
    /\ todo = <<>>
    /\ items = <<>>
    /\ task_queue = <<>>
    /\ worker = <<>>
    /\ result_queue = <<>>
    /\ num_tasks = 0
    /\ results = <<>>
    /\ to_print = <<>>
    /\ printed = <<>>
    /\ drained = <<>>
    /\ returned = <<FALSE, <<>>>>
    /\ n_terminate = 0
    /\ n_join = 0
    /\ added = <<>>
    /\ scanned = <<>>
    /\ device = NoDirs

NumTests == LET n[S \in SUBSET DOMAIN tests] ==
                    IF S = {} THEN 0
                    ELSE LET s == CHOOSE x \in S : TRUE
                         IN  Len(tests[s]) + n[S \ {s}]
            IN  n[DOMAIN tests]

\* Mutant: the directory scanned before the name is looked up.
add_suite_scans_first(name, dir) ==
    /\ pc = "idle"
    /\ scanned' = Append(scanned, dir)
    /\ IF name \in DOMAIN tests
       THEN /\ added' = Append(added, [name |-> name, error |-> "KeyError"])
            /\ UNCHANGED tests
       ELSE /\ added' = Append(added, [name |-> name, error |-> None])
            /\ tests' = [s \in DOMAIN tests \cup {name} |->
                             IF s = name THEN _scan_test_suite(dir) ELSE tests[s]]
    /\ UNCHANGED <<pc, run_filters, pool, todo, items, task_queue, worker,
                   result_queue, num_tasks, results, to_print, printed, drained,
                   returned, n_terminate, n_join, device>>

\* Mutant: the name registered with an empty list before the scan.
add_suite_registers_first(name, dir) ==
    /\ pc = "idle"
    /\ IF name \in DOMAIN tests
       THEN /\ added' = Append(added, [name |-> name, error |-> "KeyError"])
            /\ UNCHANGED <<tests, scanned>>
       ELSE /\ added' = Append(added, [name |-> name,
                                       error |-> _scan_test_suite_raises(dir)])
            /\ scanned' = Append(scanned, dir)
            /\ tests' = [s \in DOMAIN tests \cup {name} |->
                             IF s # name THEN tests[s]
                             ELSE IF _scan_test_suite_raises(dir) # None THEN <<>>
                             ELSE _scan_test_suite(dir)]
    /\ UNCHANGED <<pc, run_filters, pool, todo, items, task_queue, worker,
                   result_queue, num_tasks, results, to_print, printed, drained,
                   returned, n_terminate, n_join, device>>

add_suite(name, dir) ==
    /\ pc = "idle"
    /\ IF name \in DOMAIN tests
       THEN \* KeyError: suite already exists
            /\ added' = Append(added, [name |-> name, error |-> "KeyError"])
            /\ UNCHANGED <<tests, scanned>>
       ELSE IF _scan_test_suite_raises(dir) # None
       THEN \* the scan raises before self.tests[name] is assigned
            /\ added' = Append(added, [name |-> name,
                                       error |-> _scan_test_suite_raises(dir)])
            /\ scanned' = Append(scanned, dir)
            /\ UNCHANGED tests
       ELSE /\ added' = Append(added, [name |-> name, error |-> None])
            /\ scanned' = Append(scanned, dir)
            /\ tests' = [s \in DOMAIN tests \cup {name} |->
                             IF s = name THEN _scan_test_suite(dir) ELSE tests[s]]
    /\ UNCHANGED <<pc, run_filters, pool, todo, items, task_queue, worker,
                   result_queue, num_tasks, results, to_print, printed, drained,
                   returned, n_terminate, n_join, device>>

(***************************************************************************)
(* The WorkQueue, as TestRunner.run uses it: add_task, the workers, which  *)
(* each execute one task at a time, get_result, finished, terminate, join. *)
(* A task that raises reaches the coordinator as an error of get_result.   *)
(***************************************************************************)
WorkQueue(n) == [w \in 1..n |-> 0]

finished == num_tasks = 0

Item(suite, test) ==
    [suite |-> suite, test |-> test, runs |-> 0, done |-> FALSE, out |-> NoOut,
     found |-> <<>>]

WorkerTake(w) ==
    /\ n_terminate = 0
    /\ w \in DOMAIN worker
    /\ worker[w] = 0
    /\ task_queue # <<>>
    /\ worker' = [worker EXCEPT ![w] = Head(task_queue)]
    /\ task_queue' = Tail(task_queue)
    /\ items' = [items EXCEPT ![Head(task_queue)].runs = @ + 1]
    /\ UNCHANGED <<tests, added, scanned, device, pc, run_filters, pool, todo, result_queue, num_tasks,
                   results, to_print, printed, drained, returned, n_terminate,
                   n_join>>

(***************************************************************************)
(* What one work item can do: _run_test under every answer of the          *)
(* environment, tabulated once per (suite, test, filter).                  *)
(***************************************************************************)
UnitDentries ==
    {Dentry(name, files, config) :
        name \in {"a", "b", "c"},
        files \in {{"test.py", "build.sh"}, {"build.sh", "CMakeLists.txt"},
                   {"CMakeLists.txt", "jni/Android.mk"}, {"jni/Android.mk"}},
        config \in Policies}

\* Every combination of the four files from_dir looks for.
UnitFileDentries ==
    {Dentry("a", files, NoPolicy) :
        files \in SUBSET {"test.py", "build.sh", "CMakeLists.txt", "jni/Android.mk"}}

UnitDeviceDentries ==
    {DeviceDentry(name, {"jni/Android.mk"}, config,
                  Libs(<<File("libfoo", ".so"), File("t1", ""), File("t2", "")>>),
                  16, 21, FALSE) : name \in {"a", "b"}, config \in Policies}

\* Device test directories of other shapes: no libs/<abi> directory, only
\* libraries, only the debugger helpers, one executable, a build platform
\* above the device's, both build descriptors, and none.
UnitDeviceShapes ==
    {DeviceDentry("a", {"jni/Android.mk"}, NoPolicy, NoLibs, 16, 21, FALSE),
     DeviceDentry("a", {"jni/Android.mk"}, NoPolicy,
                  Libs(<<File("libfoo", ".so")>>), 16, 21, FALSE),
     DeviceDentry("a", {"jni/Android.mk"}, NoPolicy,
                  Libs(<<File("gdbserver", ""), File("gdb.setup", "")>>),
                  16, 21, FALSE),
     DeviceDentry("a", {"jni/Android.mk"}, NoPolicy,
                  Libs(<<File("libfoo", ".so"), File("t1", "")>>), 16, 21, FALSE),
     DeviceDentry("a", {"jni/Android.mk"}, Broken,
                  Libs(<<File("t1", ""), File("t2", "")>>), 21, 16, FALSE),
     DeviceDentry("a", {"jni/Android.mk", "CMakeLists.txt"}, NoPolicy,
                  Libs(<<File("t1", "")>>), 16, 21, FALSE),
     DeviceDentry("a", {}, NoPolicy, Libs(<<File("t1", "")>>), 16, 21, FALSE),
     DeviceDentry("a", {"jni/Android.mk"}, NoPolicy,
                  Libs(<<File("gdbserver", ""), File("libfoo", ".so"),
                         File("gdb.setup", ""), File("t2", "")>>), 16, 21, FALSE),
     DeviceDentry("c", {"jni/Android.mk"}, NoPolicy,
                  Libs(<<File("t1", ""), File("t2", ""), File("t3", "")>>),
                  16, 21, FALSE),
     \* built only (skip_run), with one descriptor and with both, and a
     \* CMake project
     DeviceDentry("b", {"jni/Android.mk"}, NoPolicy,
                  Libs(<<File("t1", "")>>), 16, 21, TRUE),
     DeviceDentry("b", {"jni/Android.mk", "CMakeLists.txt"}, NoPolicy,
                  Libs(<<File("t1", "")>>), 16, 21, TRUE),
     DeviceDentry("b", {"CMakeLists.txt"}, NoPolicy,
                  Libs(<<File("t1", "")>>), 16, 21, FALSE)}

UnitAwkDentries ==
    {[name |-> "a", test_dir |-> join("tests", "a"),
      files |-> {"t1.in", "t2.in", "t1.out", "t2.out"},
      inputs |-> <<"t1", "t2">>, script |-> TRUE]}

UnitTests ==
    {BuildTest_from_dir(d) : d \in UnitDentries \cup UnitFileDentries}
    \cup {AwkTest_from_dir(d) : d \in UnitAwkDentries}
    \cup {DeviceTest_from_dir(d) : d \in UnitDeviceDentries \cup UnitDeviceShapes}

CorpusTests == UNION {Range(_scan_test_suite(dir)) : dir \in Disk}

\* Test directories with every platform argument and jni/Application.mk:
\* one test a directory, of each build variant and a device test.
ApplicationMks ==
    {NoApplicationMk, ApplicationMk(<<>>),
     ApplicationMk(<<<<"android", "24">>>>), ApplicationMk(<<<<"24">>>>),
     ApplicationMk(<<<<"android", "L">>>>)}

PlatformDentry(name, files, abi, platform, application_mk) ==
    [Dentry(name, files, NoPolicy) EXCEPT
        !.abi = abi, !.platform = platform, !.application_mk = application_mk]

PlatformDisk ==
    {[test_class |-> "BuildTest",
      entries |-> <<PlatformDentry("a", files, abi, platform, application_mk)>>] :
        files \in {{"test.py"}, {"build.sh"}, {"CMakeLists.txt"}, {"jni/Android.mk"}},
        abi \in {"armeabi-v7a", "arm64-v8a"},
        platform \in {<<>>, <<16>>},
        application_mk \in ApplicationMks}
    \cup
    {[test_class |-> "DeviceTest",
      entries |-> <<[DeviceDentry("a", {"jni/Android.mk"}, NoPolicy,
                                  Libs(<<File("t1", "")>>), 16, 21, FALSE) EXCEPT
                        !.abi = abi, !.platform = platform,
                        !.application_mk = application_mk]>>] :
        abi \in {"armeabi-v7a", "arm64-v8a"},
        platform \in {<<>>, <<16>>},
        application_mk \in ApplicationMks}

\* Awk test directories: complete (and with a golden file that has no
\* input), without the script, and without the golden file of the second
\* input of the second test.
AwkDentry(name, files, inputs, script) ==
    [name |-> name, test_dir |-> join("tests", name), files |-> files,
     inputs |-> inputs, script |-> script]

AwkDisk ==
    {[test_class |-> "AwkTest",
      entries |-> <<AwkDentry("a", {"t1.in", "t1.out", "t9.out"}, <<"t1">>, TRUE)>>],
     [test_class |-> "AwkTest",
      entries |-> <<AwkDentry("a", {"t1.in", "t1.out"}, <<"t1">>, FALSE)>>],
     [test_class |-> "AwkTest",
      entries |-> <<AwkDentry("a", {"t1.in", "t1.out"}, <<"t1">>, TRUE),
                    AwkDentry("b", {"t1.in", "t2.in", "t1.out"}, <<"t1", "t2">>, TRUE)>>]}

ScanTests ==
    UNION {Range(_scan_test_suite(dir)) :
              dir \in {d \in PlatformDisk \cup AwkDisk : _scan_test_suite_raises(d) = None}}

Table(suites, ts) ==
    {<<k, {_run_test(k[1], k[2], OutDir, k[3], env) : env \in Envs(k[2])}>> :
        k \in suites \X ts \X Filters}

CorpusTable == Table({SuiteName(i) : i \in 1..MaxSuites}, CorpusTests)

UnitTable == Table({SuiteName(1)}, UnitTests)

ScanTable == Table({SuiteName(i) : i \in 1..MaxSuites}, ScanTests)

\* Device tests with libraries and executables, and filters that name
\* libraries as well as executables.
TransferFilters ==
    {{"a.libfoo.so"}, {"a.libfoo.so", "a.t1"}, {"a.libbar.so", "a.t1", "a.t2"},
     {"a.t2"}}

TransferDentries ==
    {DeviceDentry("a", {"jni/Android.mk"}, NoPolicy, Libs(files), 16, 21, FALSE) :
        files \in {<<File("libfoo", ".so"), File("t1", ""), File("libbar", ".so"),
                     File("t2", "")>>,
                   <<File("t1", ""), File("libfoo", ".so")>>,
                   <<File("libfoo", ".so"), File("gdbserver", ""), File("libbar", ".so")>>}}

TransferTests == {DeviceTest_from_dir(d) : d \in TransferDentries}

TransferTable ==
    {<<k, {_run_test(k[1], k[2], OutDir, k[3], env) : env \in Envs(k[2])}>> :
        k \in {SuiteName(1)} \X TransferTests \X TransferFilters}

Behaviours(suite, test, test_filters) ==
    (CHOOSE p \in (IF test_filters \in TransferFilters THEN TransferTable
                   ELSE IF test \in CorpusTests THEN CorpusTable
                   ELSE IF test \in UnitTests THEN UnitTable
                   ELSE ScanTable) :
        p[1] = <<suite, test, test_filters>>)[2]

WorkerFinish(w) ==
    /\ w \in DOMAIN worker
    /\ worker[w] # 0
    /\ LET id == worker[w]
           it == items[id]
       IN  \E out \in Behaviours(it.suite, it.test, run_filters) :
              /\ items' = [items EXCEPT ![id].done = TRUE, ![id].out = out,
                                        ![id].found = OnDevice(device, out).found]
              /\ device' = OnDevice(device, out).device
    /\ result_queue' = Append(result_queue, worker[w])
    /\ worker' = [worker EXCEPT ![w] = 0]
    /\ UNCHANGED <<tests, added, scanned, pc, run_filters, pool, todo, task_queue, num_tasks,
                   results, to_print, printed, drained, returned, n_terminate,
                   n_join>>

(***************************************************************************)
(* TestRunner.run, one action per step of the coordinator.                 *)
(***************************************************************************)
SuiteTasks(suite) == [i \in 1..Len(tests[suite]) |-> <<suite, i>>]

RECURSIVE Orders(_)
Orders(S) ==
    IF S = {} THEN {<<>>}
    ELSE UNION {{<<x>> \o o : o \in Orders(S \ {x})} : x \in S}

run_start(test_filters, n) ==
    /\ pc = "idle"
    /\ run_filters' = test_filters
    /\ pool' = n
    /\ worker' = WorkQueue(n)
    /\ \E order \in Orders(DOMAIN tests) :
          todo' = Flatten([i \in 1..Len(order) |-> SuiteTasks(order[i])])
    /\ pc' = "submit"
    /\ UNCHANGED <<tests, added, scanned, device, items, task_queue, result_queue, num_tasks, results,
                   to_print, printed, drained, returned, n_terminate, n_join>>

run_add_task ==
    /\ pc = "submit"
    /\ todo # <<>>
    /\ LET suite == Head(todo)[1]
           test == tests[suite][Head(todo)[2]]
       IN  items' = Append(items, Item(suite, test))
    /\ task_queue' = Append(task_queue, Len(items) + 1)
    /\ num_tasks' = num_tasks + 1
    /\ todo' = Tail(todo)
    /\ UNCHANGED <<tests, added, scanned, device, pc, run_filters, pool, worker, result_queue, results,
                   to_print, printed, drained, returned, n_terminate, n_join>>

\* add_task raises while the tasks are submitted: run leaves its try block
\* with the tasks submitted so far in the queue.
run_add_task_raises ==
    /\ pc = "submit"
    /\ todo # <<>>
    /\ pc' = "finally_exc"
    /\ UNCHANGED <<tests, added, scanned, device, run_filters, pool, todo, items, task_queue, worker,
                   result_queue, num_tasks, results, to_print, printed, drained,
                   returned, n_terminate, n_join>>

run_init_results ==
    /\ pc = "submit"
    /\ todo = <<>>
    /\ results' = [suite \in DOMAIN tests |-> <<>>]
    /\ pc' = "loop"
    /\ UNCHANGED <<tests, added, scanned, device, run_filters, pool, todo, items, task_queue, worker,
                   result_queue, num_tasks, to_print, printed, drained, returned,
                   n_terminate, n_join>>

\* Mutant: the drained outcomes appended under every suite.
run_get_result_any_suite ==
    /\ pc = "loop"
    /\ ~finished
    /\ result_queue # <<>>
    /\ LET id == Head(result_queue)
           out == items[id].out
       IN  IF out.raised
           THEN /\ pc' = "finally_exc"
                /\ UNCHANGED <<num_tasks, results, to_print, drained>>
           ELSE /\ num_tasks' = num_tasks - 1
                /\ results' = [suite \in DOMAIN results |-> results[suite] \o out.results]
                /\ to_print' = out.results
                /\ drained' = Append(drained, id)
                /\ pc' = IF out.results = <<>> THEN "loop" ELSE "print"
    /\ result_queue' = Tail(result_queue)
    /\ UNCHANGED <<tests, added, scanned, device, run_filters, pool, todo, items, task_queue, worker,
                   printed, returned, n_terminate, n_join>>

\* Mutant: the drained list assigned to the suite's entry, not appended.
run_get_result_overwrites ==
    /\ pc = "loop"
    /\ ~finished
    /\ result_queue # <<>>
    /\ LET id == Head(result_queue)
           out == items[id].out
       IN  IF out.raised
           THEN /\ pc' = "finally_exc"
                /\ UNCHANGED <<num_tasks, results, to_print, drained>>
           ELSE /\ num_tasks' = num_tasks - 1
                /\ results' = [results EXCEPT ![out.suite] = out.results]
                /\ to_print' = out.results
                /\ drained' = Append(drained, id)
                /\ pc' = IF out.results = <<>> THEN "loop" ELSE "print"
    /\ result_queue' = Tail(result_queue)
    /\ UNCHANGED <<tests, added, scanned, device, run_filters, pool, todo, items, task_queue, worker,
                   printed, returned, n_terminate, n_join>>

run_get_result ==
    /\ pc = "loop"
    /\ ~finished
    /\ result_queue # <<>>
    /\ LET id == Head(result_queue)
           out == items[id].out
       IN  IF out.raised
           THEN /\ pc' = "finally_exc"
                /\ UNCHANGED <<num_tasks, results, to_print, drained>>
           ELSE /\ num_tasks' = num_tasks - 1
                /\ results' = [results EXCEPT ![out.suite] = @ \o out.results]
                /\ to_print' = out.results
                /\ drained' = Append(drained, id)
                /\ pc' = IF out.results = <<>> THEN "loop" ELSE "print"
    /\ result_queue' = Tail(result_queue)
    /\ UNCHANGED <<tests, added, scanned, device, run_filters, pool, todo, items, task_queue, worker,
                   printed, returned, n_terminate, n_join>>

\* Mutant: only the first outcome of a result list reaches the printer.
run_print_result_first_only ==
    /\ pc = "print"
    /\ printed' = Append(printed, Head(to_print))
    /\ to_print' = <<>>
    /\ pc' = "loop"
    /\ UNCHANGED <<tests, added, scanned, device, run_filters, pool, todo, items, task_queue, worker,
                   result_queue, num_tasks, results, drained, returned,
                   n_terminate, n_join>>

run_print_result ==
    /\ pc = "print"
    /\ printed' = Append(printed, Head(to_print))
    /\ to_print' = Tail(to_print)
    /\ pc' = IF Tail(to_print) = <<>> THEN "loop" ELSE "print"
    /\ UNCHANGED <<tests, added, scanned, device, run_filters, pool, todo, items, task_queue, worker,
                   result_queue, num_tasks, results, drained, returned,
                   n_terminate, n_join>>

run_print_raises ==
    /\ pc = "print"
    /\ pc' = "finally_exc"
    /\ UNCHANGED <<tests, added, scanned, device, run_filters, pool, todo, items, task_queue, worker,
                   result_queue, num_tasks, results, to_print, printed, drained,
                   returned, n_terminate, n_join>>

\* Mutant: the drain loop left without asking finished().
run_return_early ==
    /\ pc = "loop"
    /\ returned' = <<TRUE, results>>
    /\ pc' = "finally_ret"
    /\ UNCHANGED <<tests, added, scanned, device, run_filters, pool, todo, items, task_queue, worker,
                   result_queue, num_tasks, results, to_print, printed, drained,
                   n_terminate, n_join>>

run_return ==
    /\ pc = "loop"
    /\ finished
    /\ returned' = <<TRUE, results>>
    /\ pc' = "finally_ret"
    /\ UNCHANGED <<tests, added, scanned, device, run_filters, pool, todo, items, task_queue, worker,
                   result_queue, num_tasks, results, to_print, printed, drained,
                   n_terminate, n_join>>

\* Mutant: join called after a return only.
run_join_after_return_only ==
    /\ pc \in {"join_ret", "join_exc"}
    /\ \A w \in DOMAIN worker : worker[w] = 0
    /\ n_join' = IF pc = "join_ret" THEN n_join + 1 ELSE n_join
    /\ pc' = IF pc = "join_ret" THEN "returned" ELSE "raised"
    /\ UNCHANGED <<tests, added, scanned, device, run_filters, pool, todo, items, task_queue, worker,
                   result_queue, num_tasks, results, to_print, printed, drained,
                   returned, n_terminate>>

\* Mutant: terminate called in an except clause, not in a finally.
run_terminate_on_failure_only ==
    /\ pc \in {"finally_ret", "finally_exc"}
    /\ n_terminate' = IF pc = "finally_exc" THEN n_terminate + 1 ELSE n_terminate
    /\ task_queue' = IF pc = "finally_exc" THEN <<>> ELSE task_queue
    /\ pc' = IF pc = "finally_ret" THEN "join_ret" ELSE "join_exc"
    /\ UNCHANGED <<tests, added, scanned, device, run_filters, pool, todo, items, worker, result_queue,
                   num_tasks, results, to_print, printed, drained, returned,
                   n_join>>

run_terminate ==
    /\ pc \in {"finally_ret", "finally_exc"}
    /\ n_terminate' = n_terminate + 1
    /\ task_queue' = <<>>
    /\ pc' = IF pc = "finally_ret" THEN "join_ret" ELSE "join_exc"
    /\ UNCHANGED <<tests, added, scanned, device, run_filters, pool, todo, items, worker, result_queue,
                   num_tasks, results, to_print, printed, drained, returned,
                   n_join>>

run_join ==
    /\ pc \in {"join_ret", "join_exc"}
    /\ \A w \in DOMAIN worker : worker[w] = 0
    /\ n_join' = n_join + 1
    /\ pc' = IF pc = "join_ret" THEN "returned" ELSE "raised"
    /\ UNCHANGED <<tests, added, scanned, device, run_filters, pool, todo, items, task_queue, worker,
                   result_queue, num_tasks, results, to_print, printed, drained,
                   returned, n_terminate>>

Next ==
    \/ \E i \in 1..MaxSuites, dir \in Disk :
          /\ i <= Cardinality(DOMAIN tests) + 1
          /\ Len(added) < MaxSuites
          /\ NumTests + Len(dir.entries) <= MaxTests
          /\ add_suite(SuiteName(i), dir)
    \/ \E test_filters \in Filters, n \in 1..MaxWorkers : run_start(test_filters, n)
    \/ run_add_task
    \/ run_init_results
    \/ \E w \in 1..MaxWorkers : WorkerTake(w)
    \/ \E w \in 1..MaxWorkers : WorkerFinish(w)
    \/ run_get_result
    \/ run_print_result
    \/ run_print_raises
    \/ run_return
    \/ run_terminate
    \/ run_join

Spec == Init /\ [][Next]_vars

(***************************************************************************)
(* The run of one registered test, for every test variant and policy.      *)
(***************************************************************************)
UnitInit ==
    /\ \E test \in UnitTests : tests = [s \in {SuiteName(1)} |-> <<test>>]
    /\ pc = "idle"
    /\ run_filters = {}
    /\ pool = 0
    /\ todo = <<>>
    /\ items = <<>>
    /\ task_queue = <<>>
    /\ worker = <<>>
    /\ result_queue = <<>>
    /\ num_tasks = 0
    /\ results = <<>>
    /\ to_print = <<>>
    /\ printed = <<>>
    /\ drained = <<>>
    /\ returned = <<FALSE, <<>>>>
    /\ n_terminate = 0
    /\ n_join = 0
    /\ added = <<>>
    /\ scanned = <<>>
    /\ device = NoDirs

UnitNext ==
    \/ \E test_filters \in Filters, n \in 1..MaxWorkers : run_start(test_filters, n)
    \/ run_add_task
    \/ run_init_results
    \/ \E w \in 1..MaxWorkers : WorkerTake(w)
    \/ \E w \in 1..MaxWorkers : WorkerFinish(w)
    \/ run_get_result
    \/ run_print_result
    \/ run_print_raises
    \/ run_return
    \/ run_terminate
    \/ run_join

UnitSpec == UnitInit /\ [][UnitNext]_vars

(***************************************************************************)
(* One suite of three build tests: a is unsupported for "mips", b is       *)
(* declared broken with bug b/123, c has no policy.  The three tests are   *)
(* of the same variant, any of the four.                                   *)
(***************************************************************************)
E2ESuites ==
    {<<BuildTest_from_dir(Dentry("a", files, Unsupported)),
       BuildTest_from_dir(Dentry("b", files, Broken)),
       BuildTest_from_dir(Dentry("c", files, NoPolicy))>> :
        files \in {{"test.py", "build.sh"}, {"build.sh", "CMakeLists.txt"},
                   {"CMakeLists.txt", "jni/Android.mk"}, {"jni/Android.mk"}}}

E2EInit ==
    /\ \E suite \in E2ESuites : tests = [s \in {SuiteName(1)} |-> suite]
    /\ pc = "idle"
    /\ run_filters = {}
    /\ pool = 0
    /\ todo = <<>>
    /\ items = <<>>
    /\ task_queue = <<>>
    /\ worker = <<>>
    /\ result_queue = <<>>
    /\ num_tasks = 0
    /\ results = <<>>
    /\ to_print = <<>>
    /\ printed = <<>>
    /\ drained = <<>>
    /\ returned = <<FALSE, <<>>>>
    /\ n_terminate = 0
    /\ n_join = 0
    /\ added = <<>>
    /\ scanned = <<>>
    /\ device = NoDirs

E2ESpec == E2EInit /\ [][UnitNext]_vars

(***************************************************************************)
(* One device test on a device whose directory for the test is absent,     *)
(* present and empty, or present with a file an earlier run left.          *)
(***************************************************************************)
UsedDevices ==
    {NoDirs,
     [d \in {"/data/local/tmp/ndk-tests/a"} |-> {}],
     [d \in {"/data/local/tmp/ndk-tests/a"} |-> {"old"}]}

DeviceInit ==
    /\ \E test \in {t \in UnitTests : t.cls = "DeviceTest"} :
          tests = [s \in {SuiteName(1)} |-> <<test>>]
    /\ pc = "idle"
    /\ run_filters = {}
    /\ pool = 0
    /\ todo = <<>>
    /\ items = <<>>
    /\ task_queue = <<>>
    /\ worker = <<>>
    /\ result_queue = <<>>
    /\ num_tasks = 0
    /\ results = <<>>
    /\ to_print = <<>>
    /\ printed = <<>>
    /\ drained = <<>>
    /\ returned = <<FALSE, <<>>>>
    /\ n_terminate = 0
    /\ n_join = 0
    /\ added = <<>>
    /\ scanned = <<>>
    /\ device \in UsedDevices

DeviceSpec == DeviceInit /\ [][UnitNext]_vars

(***************************************************************************)
(* One suite scanned from a directory whose only test has any of the       *)
(* policy files: none, or one defining any subset of the five functions.   *)
(***************************************************************************)
PolicyDir(test_class, file) ==
    [test_class |-> test_class,
     policy |-> file,
     entries |->
        IF test_class = "DeviceTest"
        THEN <<DeviceDentry("a", {"jni/Android.mk"}, BuildPolicy(file),
                            Libs(<<File("libfoo", ".so"), File("t1", ""), File("t2", "")>>),
                            16, 21, FALSE)>>
        ELSE <<Dentry("a", {"jni/Android.mk"}, BuildPolicy(file))>>]

ConfigInit ==
    /\ \E test_class \in {"BuildTest", "DeviceTest"}, file \in PolicyFiles :
          /\ scanned = <<PolicyDir(test_class, file)>>
          /\ tests = [s \in {SuiteName(1)} |->
                          _scan_test_suite(PolicyDir(test_class, file))]
    /\ added = <<[name |-> SuiteName(1), error |-> None]>>
    /\ pc = "idle"
    /\ run_filters = {}
    /\ pool = 0
    /\ todo = <<>>
    /\ items = <<>>
    /\ task_queue = <<>>
    /\ worker = <<>>
    /\ result_queue = <<>>
    /\ num_tasks = 0
    /\ results = <<>>
    /\ to_print = <<>>
    /\ printed = <<>>
    /\ drained = <<>>
    /\ returned = <<FALSE, <<>>>>
    /\ n_terminate = 0
    /\ n_join = 0
    /\ device = NoDirs

ConfigSpec == ConfigInit /\ [][UnitNext]_vars

(***************************************************************************)
(* The runner after one call of add_suite, on any directory of             *)
(* PlatformDisk: the suite is registered, or the scan raised.              *)
(***************************************************************************)
PlatformInit ==
    /\ \E dir \in PlatformDisk :
          /\ scanned = <<dir>>
          /\ added = <<[name |-> SuiteName(1), error |-> _scan_test_suite_raises(dir)]>>
          /\ tests = IF _scan_test_suite_raises(dir) # None THEN <<>>
                     ELSE [s \in {SuiteName(1)} |-> _scan_test_suite(dir)]
    /\ pc = "idle"
    /\ run_filters = {}
    /\ pool = 0
    /\ todo = <<>>
    /\ items = <<>>
    /\ task_queue = <<>>
    /\ worker = <<>>
    /\ result_queue = <<>>
    /\ num_tasks = 0
    /\ results = <<>>
    /\ to_print = <<>>
    /\ printed = <<>>
    /\ drained = <<>>
    /\ returned = <<FALSE, <<>>>>
    /\ n_terminate = 0
    /\ n_join = 0
    /\ device = NoDirs

PlatformSpec == PlatformInit /\ [][UnitNext]_vars

(***************************************************************************)
(* The runs of two registered suites, the device test of Disk and its      *)
(* build.sh test, in which any of add_task, a task and the printer may     *)
(* raise.                                                                  *)
(***************************************************************************)
FaultDirs ==
    <<CHOOSE dir \in Disk : dir.test_class = "DeviceTest",
      CHOOSE dir \in Disk : Len(dir.entries) = 1 /\ dir.entries[1].name = "c">>

FaultInit ==
    /\ scanned = FaultDirs
    /\ added = [k \in 1..2 |-> [name |-> SuiteName(k), error |-> None]]
    /\ tests = [s \in {SuiteName(1), SuiteName(2)} |->
                    IF s = SuiteName(1) THEN _scan_test_suite(FaultDirs[1])
                    ELSE _scan_test_suite(FaultDirs[2])]
    /\ pc = "idle"
    /\ run_filters = {}
    /\ pool = 0
    /\ todo = <<>>
    /\ items = <<>>
    /\ task_queue = <<>>
    /\ worker = <<>>
    /\ result_queue = <<>>
    /\ num_tasks = 0
    /\ results = <<>>
    /\ to_print = <<>>
    /\ printed = <<>>
    /\ drained = <<>>
    /\ returned = <<FALSE, <<>>>>
    /\ n_terminate = 0
    /\ n_join = 0
    /\ device = NoDirs

FaultNext ==
    \/ UnitNext
    \/ run_add_task_raises

FaultSpec == FaultInit /\ [][FaultNext]_vars

(***************************************************************************)
(* add_suite over the Awk test directories, then run.                      *)
(***************************************************************************)
ScanNext ==
    \/ \E i \in 1..MaxSuites, dir \in AwkDisk :
          /\ i <= Cardinality(DOMAIN tests) + 1
          /\ Len(added) < MaxSuites
          /\ NumTests + Len(dir.entries) <= MaxTests
          /\ add_suite(SuiteName(i), dir)
    \/ UnitNext

ScanSpec == Init /\ [][ScanNext]_vars

(***************************************************************************)
(* The run of one device test with libraries under a filter that names     *)
(* libraries and executables.                                              *)
(***************************************************************************)
TransferInit ==
    /\ \E test \in TransferTests : tests = [s \in {SuiteName(1)} |-> <<test>>]
    /\ pc = "idle"
    /\ run_filters = {}
    /\ pool = 0
    /\ todo = <<>>
    /\ items = <<>>
    /\ task_queue = <<>>
    /\ worker = <<>>
    /\ result_queue = <<>>
    /\ num_tasks = 0
    /\ results = <<>>
    /\ to_print = <<>>
    /\ printed = <<>>
    /\ drained = <<>>
    /\ returned = <<FALSE, <<>>>>
    /\ n_terminate = 0
    /\ n_join = 0
    /\ added = <<>>
    /\ scanned = <<>>
    /\ device = NoDirs

TransferNext ==
    \/ \E test_filters \in TransferFilters, n \in 1..MaxWorkers :
          run_start(test_filters, n)
    \/ run_add_task
    \/ run_init_results
    \/ \E w \in 1..MaxWorkers : WorkerTake(w)
    \/ \E w \in 1..MaxWorkers : WorkerFinish(w)
    \/ run_get_result
    \/ run_print_result
    \/ run_print_raises
    \/ run_return
    \/ run_terminate
    \/ run_join

TransferSpec == TransferInit /\ [][TransferNext]_vars

(***************************************************************************)
(* Properties of one work item (_run_test), read off the finished items.   *)
(***************************************************************************)
Done == {i \in DOMAIN items : items[i].done}

Returned == {i \in Done : ~items[i].out.raised}

Accepted(i) == filter(run_filters, items[i].test.name)

UnsupportedLabel(i) == items[i].test.config.build_unsupported

BrokenPair(i) == items[i].test.config.build_broken

BuildOps ==
    {"rmtree", "copytree", "ndk-build", "build.sh", "test.py",
     "cmake --version", "cmake", "cmake --build"}

Ops(log) == {log[k].op : k \in DOMAIN log}

Variants(outcomes) == {outcomes[k].variant : k \in DOMAIN outcomes}

\* C1: a test that passes the filter and whose build_unsupported check is
\* not None returns exactly one outcome, a Skipped carrying the test's name.
C1_UnsupportedYieldsOneSkipped ==
    \A i \in Done :
        (Accepted(i) /\ UnsupportedLabel(i) # None) =>
            /\ ~items[i].out.raised
            /\ Len(items[i].out.results) = 1
            /\ isinstance(items[i].out.results[1], "Skipped")
            /\ items[i].out.results[1].test_name = items[i].test.name

C1_Witness ==
    \E i \in Done :
        /\ Accepted(i)
        /\ UnsupportedLabel(i) # None
        /\ items[i].test.cls = "DeviceTest"
        /\ items[i].out.results = <<Skipped("a", "test unsupported for mips")>>

\* C2: a test whose build_unsupported check is not None is never built, its
\* run sequence is never started and no device command is issued for it.
C2_UnsupportedNeverBuiltNorRun ==
    \A i \in Done :
        UnsupportedLabel(i) # None =>
            /\ Ops(items[i].out.log) \cap (BuildOps \cup DeviceOps \cup {"run"}) = {}
            /\ items[i].out.raw = <<>>

C2_Witness ==
    \E i \in Done :
        /\ UnsupportedLabel(i) # None
        /\ Accepted(i)
        /\ items[i].test.cls = "DeviceTest"
        /\ items[i].out.log = <<Ev("check_build_unsupported", "a")>>
        /\ pc = "returned"

\* C3: for an accepted, supported test whose build_broken check gives
\* (label, bug), the test is run, and the returned list holds, position by
\* position, ExpectedFailure(name, label, bug) for every raw Failure and no raw
\* Failure.
C3_BrokenFailureBecomesExpected ==
    \A i \in Done :
        (Accepted(i) /\ UnsupportedLabel(i) = None /\ BrokenPair(i)[1] # None) =>
            /\ "run" \in Ops(items[i].out.log)
            /\ i \in Returned =>
                /\ Len(items[i].out.results) = Len(items[i].out.raw)
                /\ "Failure" \notin Variants(items[i].out.results)
                /\ \A k \in DOMAIN items[i].out.raw :
                      isinstance(items[i].out.raw[k], "Failure") =>
                          items[i].out.results[k] =
                              ExpectedFailure(items[i].out.raw[k].test_name,
                                              BrokenPair(i)[1], BrokenPair(i)[2])

C3_Witness ==
    \E i \in Returned :
        /\ BrokenPair(i) = <<"clang", "b/123">>
        /\ items[i].out.raw = <<Success("a.t1"), Failure("a.t2", "out")>>
        /\ items[i].out.results[2] = ExpectedFailure("a.t2", "clang", "b/123")

\* C4: under the same conditions every raw Success is returned as
\* UnexpectedSuccess(name, label, bug) and no raw Success is returned.
C4_BrokenSuccessBecomesUnexpected ==
    \A i \in Returned :
        (Accepted(i) /\ UnsupportedLabel(i) = None /\ BrokenPair(i)[1] # None) =>
            /\ Len(items[i].out.results) = Len(items[i].out.raw)
            /\ "Success" \notin Variants(items[i].out.results)
            /\ \A k \in DOMAIN items[i].out.raw :
                  isinstance(items[i].out.raw[k], "Success") =>
                      items[i].out.results[k] =
                          UnexpectedSuccess(items[i].out.raw[k].test_name,
                                            BrokenPair(i)[1], BrokenPair(i)[2])

C4_Witness ==
    \E i \in Returned :
        /\ BrokenPair(i) = <<"clang", "b/123">>
        /\ items[i].test.cls = "CMakeBuildTest"
        /\ items[i].out.raw = <<Success("a")>>
        /\ items[i].out.results = <<UnexpectedSuccess("a", "clang", "b/123")>>

\* C5: the fixup, with any (label, bug), returns a Skipped, ExpectedFailure or
\* UnexpectedSuccess outcome unchanged, and applying it twice gives what
\* applying it once gives; checked on every outcome a test run yields.
FixupArgs == {<<"clang", "b/123">>, <<"x86", "b/9">>}

C5_FixupLeavesClassifiedAlone ==
    \A i \in Done : \A k \in DOMAIN items[i].out.raw : \A a \in FixupArgs :
        LET r == items[i].out.raw[k]
            once == _fixup_expected_failure(r, a[1], a[2])
        IN  /\ r.variant \in {"Skipped", "ExpectedFailure", "UnexpectedSuccess"}
                => once = r
            /\ _fixup_expected_failure(once, a[1], a[2]) = once

C5_Witness ==
    \E i \in Returned :
        /\ BrokenPair(i)[1] # None
        /\ items[i].out.raw = <<ExpectedFailure("a.t1", "gcc", "b/7"),
                                Skipped("a.t2", "test unsupported for old-device")>>
        /\ items[i].out.results = items[i].out.raw

\* C6: when build_broken answers (None, None), the returned list is the raw
\* sequence of test.run, outcome for outcome and in the same order.
C6_NotBrokenDeliversRaw ==
    \A i \in Returned :
        ("run" \in Ops(items[i].out.log) /\ BrokenPair(i)[1] = None) =>
            items[i].out.results = items[i].out.raw

C6_Witness ==
    \E i \in Returned :
        /\ BrokenPair(i) = <<None, None>>
        /\ items[i].out.results = <<Failure("a.t1", "out"), Success("a.t2")>>
        /\ items[i].out.raw = items[i].out.results

\* C7: a test whose name the filter rejects returns the empty list, and neither
\* its policy nor its build nor the device is touched, whatever its policy says.
C7_FilteredTestDoesNothing ==
    \A i \in Done :
        ~Accepted(i) =>
            /\ ~items[i].out.raised
            /\ items[i].out.results = <<>>
            /\ items[i].out.log = <<>>

C7_Witness ==
    \E i \in Done :
        /\ ~Accepted(i)
        /\ items[i].test.config = UnsupportedAndBroken
        /\ items[i].out.results = <<>>
        /\ pc = "returned"
        /\ returned[2] = [s \in {SuiteName(1)} |-> <<>>]

(***************************************************************************)
(* Properties of TestRunner.run.                                           *)
(***************************************************************************)
ItemsOf(suite, test) ==
    {i \in DOMAIN items : items[i].suite = suite /\ items[i].test = test}

NoDuplicates(s) == \A j, k \in DOMAIN s : s[j] = s[k] => j = k

\* The outcomes the work items ids returned, in that order, for one suite.
OutcomesOf(suite, ids) ==
    Flatten([k \in 1..Len(ids) |->
                IF items[ids[k]].suite = suite THEN items[ids[k]].out.results
                ELSE <<>>])

AllOutcomes(ids) == Flatten([k \in 1..Len(ids) |-> items[ids[k]].out.results])

RECURSIVE Values(_, _)
Values(mapping, keys) ==
    IF keys = {} THEN <<>>
    ELSE LET key == CHOOSE x \in keys : TRUE
         IN  mapping[key] \o Values(mapping, keys \ {key})

\* C8: run submits one work item per registered (suite, test), no work item is
\* executed twice, and when run evaluates its return every one of the N work
\* items has been executed once and its result list drained once.
C8_SchedulerTotality ==
    /\ \A i \in DOMAIN items :
          items[i].runs <= 1 /\ (items[i].done => items[i].runs = 1)
    /\ NoDuplicates(drained)
    /\ pc \notin {"idle", "submit"} =>
          /\ Len(items) = NumTests
          /\ \A suite \in DOMAIN tests : \A k \in DOMAIN tests[suite] :
                Cardinality(ItemsOf(suite, tests[suite][k])) = 1
    /\ returned[1] =>
          /\ Len(drained) = NumTests
          /\ Range(drained) = DOMAIN items
          /\ \A i \in DOMAIN items : items[i].done /\ items[i].runs = 1

C8_Witness ==
    /\ pc = "returned"
    /\ NumTests = 2
    /\ pool = 2
    /\ drained = <<2, 1>>

\* C9: the mapping run returns has the registered suites as its keys, a suite
\* without tests maps to the empty sequence, and the sequence of each suite is
\* the concatenation, in drain order, of the result lists of that suite's own
\* work items, every work item being drained once.
C9_MappingCompleteAndAttributed ==
    returned[1] =>
        /\ DOMAIN returned[2] = DOMAIN tests
        /\ Range(drained) = DOMAIN items
        /\ NoDuplicates(drained)
        /\ \A suite \in DOMAIN tests :
              /\ returned[2][suite] = OutcomesOf(suite, drained)
              /\ tests[suite] = <<>> => returned[2][suite] = <<>>

C9_Witness ==
    /\ pc = "returned"
    /\ \E s1, s2 \in DOMAIN tests :
          /\ tests[s1] = <<>>
          /\ returned[2][s1] = <<>>
          /\ returned[2][s2] = <<Failure("a", "out"),
                                 ExpectedFailure("b", "clang", "b/123")>>
          /\ drained = <<1, 2>>

\* C10: when the coordinator is about to take the next completion or to
\* return, the printer has received the outcomes of the drained work items,
\* each once and in order; the reported outcomes are, as a multiset, the
\* outcomes of the returned mapping.
C10_ReportedBeforeNextCompletion ==
    /\ pc = "loop" => printed = AllOutcomes(drained)
    /\ pc = "print" => printed \o to_print = AllOutcomes(drained)
    /\ returned[1] => SameBag(printed, Values(returned[2], DOMAIN returned[2]))

C10_Witness ==
    /\ pc = "returned"
    /\ Cardinality(DOMAIN tests) = 2
    /\ Len(printed) = 4
    /\ \A suite \in DOMAIN tests : Len(returned[2][suite]) = 2

(***************************************************************************)
(* Properties of the device protocol.  A run of the protocol is the part   *)
(* of a work item's call log from one ensure-directory command to the next *)
(* one, or to the end of the log.                                          *)
(***************************************************************************)
DeviceCalls(log) == {k \in DOMAIN log : log[k].op \in DeviceOps}

Protocols(log) == {k \in DOMAIN log : log[k].op = "ensure"}

ProtocolEnd(log, k) ==
    IF \E j \in Protocols(log) : j > k
    THEN (CHOOSE j \in Protocols(log) : j > k /\ \A h \in Protocols(log) : h > k => j <= h) - 1
    ELSE Len(log)

ProtocolCalls(log, k) == {j \in DeviceCalls(log) : k <= j /\ j <= ProtocolEnd(log, k)}

Removals(log, k) == {j \in ProtocolCalls(log, k) : log[j].op = "rm"}

\* The ensure-directory command itself raised: nothing follows it.
EnsureRaised(out, k) == out.raised /\ k = Len(out.log)

\* C11: in every run of the device protocol that got past its
\* ensure-directory command, whatever its cases do (pass, fail, raise) and
\* whatever the copy does, the remote directory is removed exactly once, the
\* removal names the directory that was ensured, and it is the last device
\* command of that run.
C11_DeviceDirRemovedOnceAtEnd ==
    \A i \in Done : \A k \in Protocols(items[i].out.log) :
        LET out == items[i].out
        IN  ~EnsureRaised(out, k) =>
               /\ Cardinality(Removals(out.log, k)) = 1
               /\ \A j \in Removals(out.log, k) :
                     /\ out.log[j].arg = out.log[k].arg
                     /\ \A h \in ProtocolCalls(out.log, k) : h <= j

\* One passing case, one failing case and one case whose execution raises.
C11_Witness ==
    \E i \in Done :
        LET out == items[i].out
        IN  /\ out.raised
            /\ out.raw = <<Success("c.t1"), Failure("c.t2", "out")>>
            /\ Cardinality({k \in DOMAIN out.log : out.log[k].op = "exec"}) = 3
            /\ out.log[Len(out.log)] = Ev("rm", "/data/local/tmp/ndk-tests/c")

\* C12: a device test without a libs/<abi> directory issues no device
\* command at all (no ensure-directory, push, chmod, execute or remove).
C12_NoLibsNoDeviceCommand ==
    \A i \in Done :
        (items[i].test.cls = "DeviceTest" /\ ~items[i].test.libs.exists) =>
            DeviceCalls(items[i].out.log) = {}

\* C13: no failure inside one test's build or run escapes its work item:
\* every executed work item returns a result list, none ends by raising.
C13_TestFailureNeverEscapes ==
    \A i \in Done : ~items[i].out.raised

\* The product files _copy_test_to_device keeps as cases.
Executables(test, test_filters) ==
    {FileName(test.libs.files[k]) : k \in
        {j \in DOMAIN test.libs.files :
            /\ FileName(test.libs.files[j]) \notin {"gdbserver", "gdb.setup"}
            /\ ~endswith_so(test.libs.files[j])
            /\ filter(test_filters,
                      _make_subtest_name(test.name, FileName(test.libs.files[j])))}}

\* C14: a device test that built and whose libs/<abi> directory leaves no
\* executable case (only libraries, only helpers, or every executable
\* filtered out) yields no outcome and returns no list: its protocol ends by
\* raising 'Could not find any test executables.', unless a push raised first.
C14_NoExecutablesIsAnError ==
    \A i \in Done :
        LET out == items[i].out
            test == items[i].test
        IN  (/\ test.cls = "DeviceTest"
             /\ test.libs.exists
             /\ Executables(test, run_filters) = {}) =>
                \A k \in Protocols(out.log) :
                    ~EnsureRaised(out, k) =>
                        /\ out.raised
                        /\ out.raw = <<>>
                        /\ \A j \in Removals(out.log, k) :
                              \/ out.log[j - 1] =
                                    Ev("raise", "Could not find any test executables.")
                              \/ out.log[j - 1].op = "push"

\* Every executable rejected by the filter.
C14_Witness ==
    \E i \in Done :
        /\ items[i].test.cls = "DeviceTest"
        /\ run_filters = {"b", "a.t1"}
        /\ Executables(items[i].test, {}) = {"t1"}
        /\ items[i].out.raised
        /\ Ev("push", "libfoo.so") \in Range(items[i].out.log)
        /\ Ev("raise", "Could not find any test executables.")
              \in Range(items[i].out.log)

(***************************************************************************)
(* Properties of the shutdown of the pool.                                 *)
(***************************************************************************)
AllCompletedNormally ==
    /\ Done = DOMAIN items
    /\ \A i \in DOMAIN items : ~items[i].out.raised

\* C15 (as claimed): a run in which every item completes normally and that
\* returns its mapping never requests terminate or join.
C15_NoShutdownOnNormalRun ==
    (returned[1] /\ AllCompletedNormally) => (n_terminate = 0 /\ n_join = 0)

\* C15 (amended): run requests no shutdown while it submits and drains, and
\* on every exit, by return as well as by exception, it has requested
\* terminate once and then join once.
C15_ShutdownOnEveryExit ==
    /\ n_join <= n_terminate
    /\ n_terminate <= 1
    /\ pc \in {"idle", "submit", "loop", "print", "finally_ret", "finally_exc"} =>
          n_terminate = 0
    /\ pc \in {"join_ret", "join_exc"} => (n_terminate = 1 /\ n_join = 0)
    /\ pc \in {"returned", "raised"} => (n_terminate = 1 /\ n_join = 1)

C15_Witness ==
    /\ pc = "returned"
    /\ returned[1]
    /\ Len(items) = 2
    /\ AllCompletedNormally
    /\ n_terminate = 1
    /\ n_join = 1

(***************************************************************************)
(* Properties of add_suite.                                                *)
(***************************************************************************)
Accepted_adds == {k \in DOMAIN added : added[k].error = None}

\* The directory scanned by the k-th call of add_suite, an accepted one.
ScanOf(k) == scanned[Cardinality({j \in Accepted_adds : j <= k})]

\* C16: a call of add_suite fails with the duplicate-name error exactly when
\* its name was registered by an earlier call; a failing call scans nothing
\* and leaves every suite's test list as the first call for that name made
\* it; every accepted call scans its directory once.
C16_DuplicateSuiteRejectedUnscanned ==
    /\ \A k \in DOMAIN added :
          (added[k].error = "KeyError") <=>
              (\E j \in 1..(k - 1) : added[j].name = added[k].name)
    /\ Len(scanned) = Cardinality(Accepted_adds)
    /\ DOMAIN tests = {added[k].name : k \in DOMAIN added}
    /\ \A k \in Accepted_adds : tests[added[k].name] = _scan_test_suite(ScanOf(k))

C16_Witness ==
    /\ Len(added) = 2
    /\ added[1].error = None
    /\ added[2] = [name |-> added[1].name, error |-> "KeyError"]
    /\ Len(scanned) = 1
    /\ Len(tests[added[1].name]) = 2

(***************************************************************************)
(* Properties of the classification of device cases.                       *)
(***************************************************************************)
OldDevice(test) ==
    test.cls = "DeviceTest" /\ test.platform > test.device_platform

OldDeviceSkip(test, case) ==
    Skipped(_make_subtest_name(test.name, case),
            "test unsupported for device platform "
            \o ToString(test.device_platform) \o " < build platform "
            \o ToString(test.platform))

\* C17: on a device whose API level is below the test's build platform no
\* case is executed and neither run_unsupported nor run_broken of the policy
\* is consulted; every case that is classified is Skipped, and a protocol
\* that ends without raising has skipped every case the filter accepts.
C17_OldDeviceSkipsEveryCase ==
    \A i \in Done :
        LET out == items[i].out
            test == items[i].test
        IN  OldDevice(test) =>
               /\ Ops(out.log) \cap {"exec", "run_unsupported", "run_broken"} = {}
               /\ \A k \in DOMAIN out.raw :
                     \/ out.raw[k] \in
                           {OldDeviceSkip(test, case) : case \in Executables(test, run_filters)}
                     \/ (k = 1 /\ "ensure" \notin Ops(out.log))
               /\ (~out.raised /\ "rm" \in Ops(out.log)) =>
                     Range(out.raw) =
                        {OldDeviceSkip(test, case) : case \in Executables(test, run_filters)}

C17_Witness ==
    \E i \in Done :
        /\ OldDevice(items[i].test)
        /\ ~items[i].out.raised
        /\ items[i].out.results =
              <<Skipped("a.t1", "test unsupported for device platform 16 < build platform 21"),
                Skipped("a.t2", "test unsupported for device platform 16 < build platform 21")>>

(***************************************************************************)
(* The end-to-end scenario.                                                *)
(***************************************************************************)
ItemNamed(name) == CHOOSE i \in DOMAIN items : items[i].test.name = name

\* C18: in the suite of a (unsupported for "mips"), b (broken, bug b/123) and
\* c (no policy), run with a filter that accepts everything, when b's build
\* fails and c's build passes run returns for the suite exactly three
\* outcomes, in the order of completion: Skipped for a,
\* ExpectedFailure(label, "b/123") for b and Success for c.
C18_EndToEndScenario ==
    (/\ returned[1]
     /\ run_filters = {}
     /\ isinstance(items[ItemNamed("b")].out.raw[1], "Failure")
     /\ isinstance(items[ItemNamed("c")].out.raw[1], "Success")) =>
        /\ DOMAIN returned[2] = {SuiteName(1)}
        /\ Len(returned[2][SuiteName(1)]) = 3
        /\ Range(returned[2][SuiteName(1)]) =
              {Skipped("a", "test unsupported for mips"),
               ExpectedFailure("b", "clang", "b/123"),
               Success("c")}

C18_Witness ==
    /\ pc = "returned"
    /\ pool = 2
    /\ run_filters = {}
    /\ items[ItemNamed("b")].out.raw = <<Failure("b", "out")>>
    /\ returned[2][SuiteName(1)] =
          <<ExpectedFailure("b", "clang", "b/123"),
            Skipped("a", "test unsupported for mips"),
            Success("c")>>

(***************************************************************************)
(* Properties of the names in one work item's outcomes.                    *)
(***************************************************************************)
Occurrences(outcomes, name) ==
    Cardinality({k \in DOMAIN outcomes : outcomes[k].test_name = name})

\* The build passes DeviceTest.run makes; every other variant runs once.
Passes(test) ==
    IF test.cls = "DeviceTest"
    THEN Cardinality(test.files \cap {"jni/Android.mk", "CMakeLists.txt"})
    ELSE 1

\* C19 (as claimed): in the result list of one work item no (test, subtest)
\* name occurs twice, for every variant.
C19_NoNameTwice ==
    \A i \in Done : \A k \in DOMAIN items[i].out.raw :
        Occurrences(items[i].out.raw, items[i].out.raw[k].test_name) = 1

\* C19 (amended): among the outcomes of one work item a (test, subtest) name
\* occurs at most once per build pass of the test: once for the build
\* variants and the awk test, at most twice for a device test with both
\* descriptors, and a device test with neither yields no outcome; a test
\* that is unsupported for the build has its one Skipped.
C19_OneOutcomePerNameAndPass ==
    \A i \in Done :
        LET out == items[i].out
        IN  /\ \A k \in DOMAIN out.raw :
                  Occurrences(out.raw, out.raw[k].test_name) <= Passes(items[i].test)
            /\ \A k \in DOMAIN out.results :
                  Occurrences(out.results, out.results[k].test_name)
                      <= IF UnsupportedLabel(i) # None THEN 1
                         ELSE Passes(items[i].test)

\* Both descriptors: the case t1 has an outcome of the ndk-build pass and one
\* of the CMake pass.
C19_Witness ==
    \E i \in Done :
        /\ Passes(items[i].test) = 2
        /\ items[i].out.results = <<Success("a.t1"), Success("a.t1")>>

\* C20: after the ensure-directory command of a device protocol and before
\* its first push, the remote directory exists and holds no file, whether or
\* not it existed beforehand.
C20_RemoteDirCleanAtStart ==
    \A i \in Done : \A k \in DOMAIN items[i].found :
        items[i].found[k].files = {}

(***************************************************************************)
(* Properties of the transfer step.                                        *)
(***************************************************************************)
Helpers == {"gdbserver", "gdb.setup"}

LibraryNames(test) ==
    {FileName(test.libs.files[k]) :
        k \in {j \in DOMAIN test.libs.files : endswith_so(test.libs.files[j])}}

\* C21: gdbserver and gdb.setup are never pushed, chmod-ed or executed; a
\* pushed file that is not a .so library is chmod-ed right after its own push
\* (unless that push raised, which ends the transfer) and before any case of
\* that protocol is executed; no .so library is chmod-ed or executed.
C21_TransferStep ==
    \A i \in Done :
        LET log == items[i].out.log
            test == items[i].test
        IN  test.cls = "DeviceTest" =>
               /\ \A k \in DOMAIN log :
                     log[k].op \in {"push", "chmod", "exec"} => log[k].arg \notin Helpers
               /\ \A k \in DOMAIN log :
                     log[k].op \in {"chmod", "exec", "run_unsupported", "run_broken"} =>
                         log[k].arg \notin LibraryNames(test)
               /\ \A k \in DOMAIN log :
                     (log[k].op = "push" /\ log[k].arg \notin LibraryNames(test)) =>
                         \/ log[k + 1] = Ev("chmod", log[k].arg)
                         \/ (items[i].out.raised /\ log[k + 1].op = "rm")
               /\ \A k \in DOMAIN log : \A e \in DOMAIN log :
                     (/\ log[k].op \in {"push", "chmod"}
                      /\ log[e].op = "exec"
                      /\ \E p \in Protocols(log) :
                            {k, e} \subseteq ProtocolCalls(log, p)) => k < e

C21_Witness ==
    \E i \in Done :
        /\ ~items[i].out.raised
        /\ items[i].test.cls = "DeviceTest"
        /\ items[i].test.libs.files =
              <<File("gdbserver", ""), File("libfoo", ".so"),
                File("gdb.setup", ""), File("t2", "")>>
        /\ \E k \in 1..(Len(items[i].out.log) - 4) :
              /\ items[i].out.log[k] = Ev("push", "libfoo.so")
              /\ items[i].out.log[k + 1] = Ev("push", "t2")
              /\ items[i].out.log[k + 2] = Ev("chmod", "t2")
              /\ items[i].out.log[k + 3].op = "run_unsupported"
              /\ items[i].out.log[k + 4] = Ev("exec", "t2")

(***************************************************************************)
(* Properties of the selection of the build variant.                       *)
(***************************************************************************)
BuildClasses ==
    {"PythonBuildTest", "ShellBuildTest", "CMakeBuildTest", "NdkBuildTest"}

ToolOps == {"test.py", "build.sh", "cmake --version", "ndk-build"}

\* The registered build tests, and the tool each variant invokes.
BuildTests ==
    {t \in UNION {Range(tests[suite]) : suite \in DOMAIN tests} : t.cls \in BuildClasses}

ToolOf(cls) ==
    CASE cls = "PythonBuildTest" -> "test.py"
      [] cls = "ShellBuildTest" -> "build.sh"
      [] cls = "CMakeBuildTest" -> "cmake --version"
      [] cls = "NdkBuildTest" -> "ndk-build"

\* C22: from_dir chooses the variant by strict precedence over the files of
\* the directory (test.py, then build.sh, then CMakeLists.txt, else
\* ndk-build), and the run of the test invokes the tool of that variant only.
C22_BuildStrategyPrecedence ==
    /\ \A t \in BuildTests :
          /\ "test.py" \in t.files => t.cls = "PythonBuildTest"
          /\ ("test.py" \notin t.files /\ "build.sh" \in t.files) =>
                t.cls = "ShellBuildTest"
          /\ ({"test.py", "build.sh"} \cap t.files = {} /\ "CMakeLists.txt" \in t.files) =>
                t.cls = "CMakeBuildTest"
          /\ {"test.py", "build.sh", "CMakeLists.txt"} \cap t.files = {} =>
                t.cls = "NdkBuildTest"
    /\ \A i \in Done :
          items[i].test.cls \in BuildClasses =>
              Ops(items[i].out.log) \cap ToolOps \subseteq {ToolOf(items[i].test.cls)}

C22_Witness ==
    \E i \in Done :
        /\ items[i].test.files = {"build.sh", "CMakeLists.txt", "jni/Android.mk"}
        /\ items[i].test.cls = "ShellBuildTest"
        /\ "build.sh" \in Ops(items[i].out.log)

Defines(file, name) == file.exists /\ name \in file.defs

BuildPolicyNames == {"build_broken", "build_unsupported", "extra_cmake_flags"}

\* C23: whatever subset of the five functions the policy file of a scanned
\* test defines, the resolved configuration answers with the file's function
\* for each defined name and with the null default for each missing one,
\* each name by itself; an absent file resolves to the five defaults, the
\* test is discovered all the same, and the run of a build test skips it
\* exactly when build_unsupported is defined and relabels its outcome
\* exactly when build_broken is.
C23_PolicyDefaultsIndependent ==
    \A k \in DOMAIN scanned :
        /\ \A name \in PolicyNames :
              DeviceTestConfig(scanned[k].policy)[name] =
                  IF Defines(scanned[k].policy, name) THEN PolicyAnswers[name]
                  ELSE NullTestConfig[name]
        /\ \A name \in BuildPolicyNames :
              TestConfig(scanned[k].policy)[name] =
                  IF Defines(scanned[k].policy, name) THEN PolicyAnswers[name]
                  ELSE NullTestConfig[name]
        /\ ~scanned[k].policy.exists =>
              \A name \in PolicyNames :
                  DeviceTestConfig(scanned[k].policy)[name] = NullTestConfig[name]
        /\ Len(tests[SuiteName(k)]) = 1
        /\ \A i \in Done :
              (Accepted(i) /\ items[i].test.cls = "NdkBuildTest") =>
                  /\ ~items[i].out.raised
                  /\ Len(items[i].out.results) = 1
                  /\ isinstance(items[i].out.results[1], "Skipped")
                        <=> Defines(scanned[k].policy, "build_unsupported")
                  /\ items[i].out.results[1].variant
                            \in {"ExpectedFailure", "UnexpectedSuccess"}
                        <=> (/\ Defines(scanned[k].policy, "build_broken")
                             /\ ~Defines(scanned[k].policy, "build_unsupported"))

C23_Witness ==
    /\ scanned[1].policy.exists
    /\ scanned[1].policy.defs = {"build_broken", "run_unsupported"}
    /\ \E i \in Done :
          /\ items[i].test.cls = "NdkBuildTest"
          /\ items[i].out.results = <<ExpectedFailure("a", "clang", "b/123")>>

\* An absent policy file: the test is discovered and runs unlabelled.
C23_WitnessAbsent ==
    /\ ~scanned[1].policy.exists
    /\ \E i \in Done :
          /\ items[i].test.cls = "NdkBuildTest"
          /\ items[i].out.results = <<Success("a")>>

AwkCompared(i) ==
    {k \in DOMAIN items[i].out.log : items[i].out.log[k].op = "filecmp.out"}

OutcomesNamed(i, name) ==
    {k \in DOMAIN items[i].out.results : items[i].out.results[k].test_name = name}

\* C24: for every case of an Awk test that passed the filter and whose awk
\* exited with 0, the case has one outcome: Success when the file awk wrote
\* holds the bytes of the golden file, and otherwise a Failure whose message
\* carries a non-empty diff after its heading.
C24_GoldenComparisonExact ==
    \A i \in Done :
        items[i].test.cls = "AwkTest" =>
            \A k \in AwkCompared(i) :
                LET log == items[i].out.log
                    name == _make_subtest_name(items[i].test.name, log[k - 1].arg)
                IN  /\ Cardinality(OutcomesNamed(i, name)) = 1
                    /\ \A j \in OutcomesNamed(i, name) :
                          IF log[k].arg = log[k + 1].arg
                          THEN items[i].out.results[j] = Success(name)
                          ELSE /\ isinstance(items[i].out.results[j], "Failure")
                               /\ items[i].out.results[j].message
                                     # "output does not match expected:\n\n"

(***************************************************************************)
(* Properties of the construction of tests.                                *)
(***************************************************************************)
\* The test made from entry e of the k-th scanned directory, when the scan
\* returned.
Made(k, e) == tests[added[k].name][e]

InfersFromApplicationMk == {"NdkBuildTest", "CMakeBuildTest", "DeviceTest"}

\* The level a well-formed APP_PLATFORM line declares; <<>> without one.
Declared(dentry) ==
    IF dentry.application_mk.exists /\ dentry.application_mk.app_platform # <<>>
       /\ dentry.application_mk.app_platform[1] = <<"android", "24">>
    THEN <<24>> ELSE <<>>

WellFormed(dentry) ==
    ~dentry.application_mk.exists
    \/ dentry.application_mk.app_platform \in {<<>>, <<<<"android", "24">>>>}

\* C25 as stated: every test variant takes the platform it was given, else
\* the level jni/Application.mk declares, else the minimum of its ABI.
C25_PlatformInferenceEveryVariant ==
    \A k \in DOMAIN scanned :
        \A e \in DOMAIN scanned[k].entries :
            (added[k].error = None /\ WellFormed(scanned[k].entries[e])) =>
                Made(k, e).platform =
                    IF scanned[k].entries[e].platform # <<>>
                    THEN scanned[k].entries[e].platform[1]
                    ELSE IF Declared(scanned[k].entries[e]) # <<>>
                    THEN Declared(scanned[k].entries[e])[1]
                    ELSE minimum_platform_level(scanned[k].entries[e].abi)

\* C25, amended: the ndk-build, CMake and device variants take the platform
\* they were given, else the level a well-formed APP_PLATFORM line of
\* jni/Application.mk declares, else the minimum of the ABI; the test.py and
\* build.sh variants take the platform they were given, else the minimum of
\* the ABI, whatever jni/Application.mk holds.
C25_PlatformInference ==
    \A k \in DOMAIN scanned :
        \A e \in DOMAIN scanned[k].entries :
            LET dentry == scanned[k].entries[e]
            IN  /\ (added[k].error = None /\ WellFormed(dentry)
                    /\ Made(k, e).cls \in InfersFromApplicationMk) =>
                      Made(k, e).platform =
                          IF dentry.platform # <<>> THEN dentry.platform[1]
                          ELSE IF Declared(dentry) # <<>> THEN Declared(dentry)[1]
                          ELSE minimum_platform_level(dentry.abi)
                /\ (added[k].error = None
                    /\ Made(k, e).cls \in {"PythonBuildTest", "ShellBuildTest"}) =>
                      Made(k, e).platform =
                          IF dentry.platform # <<>> THEN dentry.platform[1]
                          ELSE minimum_platform_level(dentry.abi)

C25_Witness ==
    /\ added[1].error = None
    /\ scanned[1].entries[1].platform = <<>>
    /\ Declared(scanned[1].entries[1]) = <<24>>
    /\ scanned[1].entries[1].abi = "arm64-v8a"
    /\ Made(1, 1).cls = "CMakeBuildTest"
    /\ Made(1, 1).platform = 24
    /\ \E i \in Done : items[i].test = Made(1, 1)

\* The calls of add_suite that began a scan, and the directory of each.
Scans == {k \in DOMAIN added : added[k].error # "KeyError"}

ScannedBy(k) == scanned[Cardinality({j \in Scans : j <= k})]

CaseNames == {"t1", "t2", "t9"}

\* The script is missing, or some <case>.in has no <case>.out beside it.
MissingCompanion(dentry) ==
    \/ ~dentry.script
    \/ \E case \in CaseNames :
          /\ (case \o ".in") \in dentry.files
          /\ (case \o ".out") \notin dentry.files

\* C26: a scan of Awk test directories raises exactly when the script of
\* some test is missing or one of its inputs has no golden file; the call
\* of add_suite that raised registers nothing under its name, a call that
\* returned registers one test for every directory, and every work item
\* comes from the list registered under its suite.
C26_AwkConstructionFails ==
    /\ \A k \in Scans :
          /\ added[k].error \in {None, "RuntimeError"}
          /\ (added[k].error = "RuntimeError") <=>
                (\E e \in DOMAIN ScannedBy(k).entries :
                    MissingCompanion(ScannedBy(k).entries[e]))
          /\ added[k].error = None =>
                /\ Len(tests[added[k].name]) = Len(ScannedBy(k).entries)
                /\ \A e \in DOMAIN ScannedBy(k).entries :
                      /\ tests[added[k].name][e].cls = "AwkTest"
                      /\ tests[added[k].name][e].name = ScannedBy(k).entries[e].name
    /\ \A name \in DOMAIN tests :
          \E k \in Scans : added[k].name = name /\ added[k].error = None
    /\ \A i \in DOMAIN items :
          /\ items[i].suite \in DOMAIN tests
          /\ items[i].test \in Range(tests[items[i].suite])

C26_Witness ==
    /\ Len(added) = 2
    /\ added[1].error = "RuntimeError"
    /\ Len(scanned[1].entries) = 2
    /\ added[2] = [name |-> added[1].name, error |-> None]
    /\ DOMAIN tests = {added[1].name}
    /\ tests[added[1].name] = _scan_test_suite(scanned[2])
    /\ \E i \in Done : items[i].out.results = <<Success("a.t1")>>

(***************************************************************************)
(* Properties of the classification of executed cases.                     *)
(***************************************************************************)
\* An execution the device answered: its exit status, output and the answer
\* of run_broken follow it in the log.
Answered(log, k) ==
    log[k].op = "exec" /\ k + 5 <= Len(log) /\ log[k + 1].op = "exit"

\* What the claim expects of the execution at k, from what the device and
\* the policy answered.
Expected(test, log, k) ==
    LET case_name == test.name \o "." \o log[k].arg
    IN  IF log[k + 4].arg = None
        THEN IF log[k + 1].arg = "0"
             THEN [variant |-> "Success", test_name |-> case_name]
             ELSE [variant |-> "Failure", test_name |-> case_name,
                   message |-> log[k + 2].arg]
        ELSE IF log[k + 1].arg = "0"
             THEN [variant |-> "UnexpectedSuccess", test_name |-> case_name,
                   config |-> log[k + 4].arg, bug |-> log[k + 5].arg]
             ELSE [variant |-> "ExpectedFailure", test_name |-> case_name,
                   config |-> log[k + 4].arg, bug |-> log[k + 5].arg]

\* The outcomes of the execute-and-classify loop that the log accounts for,
\* in the order of the log: one for each answered execution and one Skipped
\* for each unsupported case.
RECURSIVE PerCase(_, _, _)
PerCase(test, log, k) ==
    IF k > Len(log) THEN <<>>
    ELSE IF Answered(log, k)
    THEN <<Expected(test, log, k)>> \o PerCase(test, log, k + 1)
    ELSE IF log[k].op = "unsupported"
    THEN <<[variant |-> "Skipped", test_name |-> test.name \o "." \o log[k].arg]>>
         \o PerCase(test, log, k + 1)
    ELSE PerCase(test, log, k + 1)

\* The outcomes of the cases among those test.run yielded (the outcome of a
\* build carries the name of the test itself).
OfCases(test, raw) == SelectSeq(raw, LAMBDA r : r.test_name # test.name)

\* An outcome without the reason of a Skipped.
Shown(r) ==
    IF r.variant = "Skipped" THEN [variant |-> "Skipped", test_name |-> r.test_name]
    ELSE r

UnsupportedIn(log, p, case) ==
    \E k \in p..ProtocolEnd(log, p) : log[k] = Ev("unsupported", case)

\* C27: the outcomes of the cases of a device test are, in order, one for
\* each execution the device answered and one Skipped for each unsupported
\* case; an execution is named <test>.<case> and classified by its own exit
\* status and the answer of run_broken alone (Success or Failure carrying
\* the output when run_broken is null, UnexpectedSuccess or ExpectedFailure
\* with its label and bug otherwise); and in a protocol that ends without
\* an exception every accepted case that is not unsupported is executed
\* exactly once, whatever the exit status of the others.
C27_PerCaseClassification ==
    \A i \in Done :
        LET out == items[i].out
            test == items[i].test
        IN  test.cls = "DeviceTest" =>
               /\ Len(OfCases(test, out.raw)) = Len(PerCase(test, out.log, 1))
               /\ \A k \in DOMAIN OfCases(test, out.raw) :
                     Shown(OfCases(test, out.raw)[k]) = PerCase(test, out.log, 1)[k]
               /\ ~out.raised =>
                     \A p \in Protocols(out.log) :
                         \A case \in Executables(test, run_filters) :
                             ~UnsupportedIn(out.log, p, case) =>
                                 Cardinality({k \in ProtocolCalls(out.log, p) :
                                                 out.log[k] = Ev("exec", case)}) = 1

\* Three cases: the first fails, the second is known broken and passes, the
\* third passes.
C27_Witness ==
    \E i \in Done :
        /\ ~items[i].out.raised
        /\ items[i].out.raw =
              <<Failure("c.t1", "out"), UnexpectedSuccess("c.t2", "gcc", "b/7"),
                Success("c.t3")>>
        /\ Cardinality({k \in DOMAIN items[i].out.log :
                           items[i].out.log[k].op = "exec"}) = 3

(***************************************************************************)
(* Properties of the exits of run.                                         *)
(***************************************************************************)
ExceptionPath == {"finally_exc", "join_exc", "raised"}

ReturnPath == {"finally_ret", "join_ret", "returned"}

\* C28: on every exit of run, after its return and after an exception of
\* add_task, of a drained task or of the printer, terminate has been called
\* once and join once after it, join never before terminate; a run that
\* leaves by an exception hands no mapping to its caller, whatever it had
\* collected, and a run that returns hands over all it collected.
C28_TerminateThenJoinOnEveryExit ==
    /\ n_terminate \in {0, 1}
    /\ n_join \in {0, n_terminate}
    /\ n_join = 1 <=> pc \in {"returned", "raised"}
    /\ n_terminate = 1 <=> pc \in {"join_ret", "join_exc", "returned", "raised"}
    /\ pc \in ExceptionPath => returned = <<FALSE, <<>>>>
    /\ pc \in ReturnPath => returned = <<TRUE, results>>

\* The printer raised after outcomes were collected: nothing is returned.
C28_Witness ==
    /\ pc = "raised"
    /\ n_terminate = 1
    /\ n_join = 1
    /\ \E s \in DOMAIN results : Len(results[s]) >= 2
    /\ printed # <<>>
    /\ returned = <<FALSE, <<>>>>

\* add_task raised with a task still to submit.
C28_WitnessSubmit ==
    /\ pc = "raised"
    /\ todo # <<>>
    /\ Len(items) = 1
    /\ n_terminate = 1
    /\ n_join = 1

\* A drained task had raised.
C28_WitnessDrain ==
    /\ pc = "raised"
    /\ todo = <<>>
    /\ \E i \in Done : items[i].out.raised
    /\ to_print = <<>>
    /\ n_join = 1

(***************************************************************************)
(* Properties of the order of the device commands.                         *)
(***************************************************************************)
Execs(log) == {k \in DOMAIN log : log[k].op = "exec"}

\* C29: in the device commands of one device test, run by run, no command
\* comes before the ensure-directory command of its run; every push and
\* chmod of a run precedes the first execution of that run; an execution
\* has returned its exit status and has been classified before the next one
\* starts; the removal is the last command of its run, and a second run (of
\* a test with both build descriptors) starts only after the removal of the
\* first.
C29_DeviceProtocolOrder ==
    \A i \in Done :
        LET log == items[i].out.log
        IN  items[i].test.cls = "DeviceTest" =>
               /\ \A k \in DeviceCalls(log) : \E p \in Protocols(log) : p <= k
               /\ \A p \in Protocols(log) : \A k, e \in ProtocolCalls(log, p) :
                     (log[k].op \in {"push", "chmod"} /\ log[e].op = "exec") => k < e
               /\ \A e1, e2 \in Execs(log) :
                     e1 < e2 => (Answered(log, e1) /\ e1 + 5 < e2)
               /\ \A p \in Protocols(log) : \A j \in Removals(log, p) :
                     \A h \in ProtocolCalls(log, p) : h <= j
               /\ \A p, q \in Protocols(log) : p < q => Removals(log, p) # {}

\* Three products pushed and made runnable, three cases executed, the
\* directory removed.
C29_Witness ==
    \E i \in Done :
        LET log == items[i].out.log
        IN  /\ ~items[i].out.raised
            /\ Cardinality(Protocols(log)) = 1
            /\ Cardinality({k \in DOMAIN log : log[k].op = "push"}) = 3
            /\ Cardinality({k \in DOMAIN log : log[k].op = "chmod"}) = 3
            /\ Cardinality(Execs(log)) = 3
            /\ log[Len(log)].op = "rm"

(***************************************************************************)
(* Properties of the build passes of a device test.                        *)
(***************************************************************************)
\* The build passes of a log: the places where a build returned.
BuildResults(log) == {k \in DOMAIN log : log[k].op = "build_result"}

PassEnd(log, k) ==
    IF \E j \in BuildResults(log) : j > k
    THEN CHOOSE j \in BuildResults(log) :
            j > k /\ \A h \in BuildResults(log) : h > k => j <= h
    ELSE Len(log)

\* The claim's rule: the cases are run after a build that passed, unless
\* skip_run is set.
RunsCases(test, log, k) == log[k].arg = "Success" /\ ~test.skip_run

\* How many outcomes the pass at k yields according to the claim: the one
\* of its build, or one for each case the device run classified.
Yield(test, log, k) ==
    IF RunsCases(test, log, k)
    THEN Cardinality({j \in k..PassEnd(log, k) :
                         Answered(log, j) \/ log[j].op = "unsupported"})
    ELSE 1

RECURSIVE Offset(_, _, _)
Offset(test, log, k) ==
    IF \A j \in BuildResults(log) : j >= k THEN 0
    ELSE LET prev == CHOOSE j \in BuildResults(log) :
                        j < k /\ \A h \in BuildResults(log) : h < k => h <= j
         IN  Offset(test, log, prev) + Yield(test, log, prev)

PassDeviceCalls(log, k) == {j \in DeviceCalls(log) : k < j /\ j <= PassEnd(log, k)}

\* C30: in every build pass of a device test, a build that did not pass
\* (Failure, or the Skipped of a missing or too old CMake) or that passed
\* under skip_run yields that one build outcome and is followed by no
\* device command; a build that passed without skip_run is followed by the
\* device protocol and yields only the outcomes of cases; the test yields
\* nothing else, and never the Success of its build unless skip_run is set.
C30_BuildGatesDeviceRun ==
    \A i \in Done :
        LET log == items[i].out.log
            raw == items[i].out.raw
            test == items[i].test
        IN  test.cls = "DeviceTest" =>
               /\ \A k \in BuildResults(log) :
                     /\ Offset(test, log, k) + Yield(test, log, k) <= Len(raw)
                     /\ IF RunsCases(test, log, k)
                        THEN /\ PassDeviceCalls(log, k) # {}
                             /\ \A m \in 1..Yield(test, log, k) :
                                   raw[Offset(test, log, k) + m].test_name # test.name
                        ELSE /\ PassDeviceCalls(log, k) = {}
                             /\ raw[Offset(test, log, k) + 1].test_name = test.name
                             /\ raw[Offset(test, log, k) + 1].variant = log[k].arg
                             /\ log[k].arg \in {"Failure", "Skipped", "Success"}
               /\ \A k \in BuildResults(log) :
                     (\A j \in BuildResults(log) : j <= k) =>
                         Len(raw) = Offset(test, log, k) + Yield(test, log, k)
               /\ BuildResults(log) = {} => (raw = <<>> /\ DeviceCalls(log) = {})
               /\ ~test.skip_run => Success(test.name) \notin Range(raw)
               /\ test.skip_run => DeviceCalls(log) = {}

\* The ndk-build pass runs the case and the CMake pass finds no cmake.
C30_Witness ==
    \E i \in Done :
        /\ items[i].test.cls = "DeviceTest"
        /\ items[i].test.files = {"jni/Android.mk", "CMakeLists.txt"}
        /\ ~items[i].test.skip_run
        /\ items[i].out.raw =
              <<Success("a.t1"), Skipped("a", "cmake executable not found")>>
        /\ Cardinality(Protocols(items[i].out.log)) = 1

\* Built under skip_run: the Success of the build and no device command.
C30_WitnessSkipRun ==
    \E i \in Done :
        /\ items[i].test.cls = "DeviceTest"
        /\ items[i].test.skip_run
        /\ items[i].test.files = {"jni/Android.mk"}
        /\ items[i].out.raw = <<Success("b")>>
        /\ DeviceCalls(items[i].out.log) = {}


(***************************************************************************)
(* Properties of a work item at the moment its result is drained.          *)
(***************************************************************************)
\* The work item is over: executed once, held by no worker, not queued.
Over(i) ==
    /\ items[i].done
    /\ items[i].runs = 1
    /\ \A w \in DOMAIN worker : worker[w] # i
    /\ i \notin Range(task_queue)

\* The outcomes the calls of the log account for: the one of the tool of a
\* build variant (none is called for a build.sh test on Windows), one for
\* each awk invocation, and for a device test what its build passes yield.
Accounted(test, raw, log) ==
    CASE test.cls \in BuildClasses ->
            /\ Len(raw) = 1
            /\ \/ Ops(log) \cap ToolOps = {ToolOf(test.cls)}
               \/ raw = <<Skipped(test.name, "build.sh tests are not supported on Windows")>>
      [] test.cls = "AwkTest" ->
            Len(raw) = Cardinality({k \in DOMAIN log : log[k].op = "awk"})
      [] test.cls = "DeviceTest" ->
            /\ Len(OfCases(test, raw)) = Len(PerCase(test, log, 1))
            /\ Len(raw) - Len(OfCases(test, raw))
                  = Cardinality({k \in BuildResults(log) : ~RunsCases(test, log, k)})

\* C31: when the coordinator has drained the result of a work item, the item
\* is over (its worker returned from it and it is never executed again, so
\* none of its commands comes later); every outcome test.run yielded is in
\* the returned list, and each is accounted for by calls the worker made
\* before it returned; for a device test every run of the protocol has
\* issued its removal after all its other device commands, and the remote
\* directory is no longer on the device.
C31_SequenceConsumedBeforeDrain ==
    \A d \in DOMAIN drained :
        LET i == drained[d]
            out == items[i].out
            test == items[i].test
        IN  /\ Over(i)
            /\ ~out.raised
            /\ (Accepted(i) /\ UnsupportedLabel(i) = None) =>
                  /\ "run" \in Ops(out.log)
                  /\ Len(out.results) = Len(out.raw)
                  /\ Accounted(test, out.raw, out.log)
            /\ ~(Accepted(i) /\ UnsupportedLabel(i) = None) =>
                  (out.raw = <<>> /\ "run" \notin Ops(out.log))
            /\ \A p \in Protocols(out.log) :
                  /\ Removals(out.log, p) # {}
                  /\ \A j \in Removals(out.log, p) :
                        \A h \in ProtocolCalls(out.log, p) : h <= j
                  /\ out.log[p].arg \notin DOMAIN device

\* A drained device test of three cases: three outcomes, three executions,
\* the directory created by the protocol and removed again.
C31_Witness ==
    \E d \in DOMAIN drained :
        LET out == items[drained[d]].out
        IN  /\ items[drained[d]].test.cls = "DeviceTest"
            /\ Len(out.results) = 3
            /\ Cardinality(Execs(out.log)) = 3
            /\ Ev("ensure", "/data/local/tmp/ndk-tests/c") \in Range(out.log)
            /\ out.log[Len(out.log)] = Ev("rm", "/data/local/tmp/ndk-tests/c")
            /\ device = NoDirs
            /\ pc \in {"loop", "print"}


(***************************************************************************)
(* Properties of the accumulator of run.                                   *)
(***************************************************************************)
\* C32: whatever the workers have executed and in whatever order they
\* finished, the accumulator and the printer hold nothing until the
\* coordinator starts to drain (nor ever, when run is left while it
\* submits), and from then on exactly what the coordinator drained: the
\* accumulator has the registered suites as its keys, each suite's sequence is the concatenation, in drain
\* order, of the lists its drained work items returned, and the printer has
\* received, or is about to receive, the outcomes of the drained items and
\* no other; the outcomes of a finished item that is not yet drained are in
\* the completion queue only.
C32_AccumulatorSingleWriter ==
    /\ pc \in {"idle", "submit"} => (results = <<>> /\ drained = <<>>)
    /\ pc \in {"loop", "print"} \cup ReturnPath => DOMAIN results = DOMAIN tests
    /\ \A suite \in DOMAIN results : results[suite] = OutcomesOf(suite, drained)
    /\ printed \o to_print = AllOutcomes(drained)
    /\ NoDuplicates(drained)
    /\ Range(drained) \subseteq Done
    /\ \A i \in Done \ Range(drained) :
          \/ i \in Range(result_queue)
          \/ items[i].out.raised

\* Two workers have finished three items of one suite, in an order that is
\* not the order of submission; two are drained, the third waits in the
\* completion queue.
C32_Witness ==
    /\ pc = "loop"
    /\ pool = 2
    /\ Len(drained) = 2
    /\ drained[1] > drained[2]
    /\ Len(result_queue) = 1
    /\ \E suite \in DOMAIN results :
          /\ Len(results[suite]) = 2
          /\ results[suite][1] # results[suite][2]
    /\ items[result_queue[1]].out.results # <<>>


(***************************************************************************)
(* Properties of the build helpers.                                        *)
(***************************************************************************)
HelperClasses == {"ShellBuildTest", "NdkBuildTest", "CMakeBuildTest"}

ExternalTools == {"build.sh", "ndk-build", "cmake --version", "cmake", "cmake --build"}

ToolCalls(log) == {k \in DOMAIN log : log[k].op \in ExternalTools}

\* What call_output returned for the call at k.
Status(log, k) == log[k + 1].arg

Captured(log, k) == log[k + 2].arg

LastCall(log) == CHOOSE k \in ToolCalls(log) : \A j \in ToolCalls(log) : j <= k

Ran(i) == i \in Done /\ Accepted(i) /\ UnsupportedLabel(i) = None

\* The build directory is removed, then the sources are copied in, once
\* each and before every call of a tool.
Prepared(log, dir) ==
    /\ Cardinality({k \in DOMAIN log : log[k].op = "rmtree"}) = 1
    /\ Cardinality({k \in DOMAIN log : log[k].op = "copytree"}) = 1
    /\ \E r, c \in DOMAIN log :
          /\ log[r] = Ev("rmtree", dir)
          /\ log[c] = Ev("copytree", dir)
          /\ r < c
          /\ \A k \in ToolCalls(log) : c < k /\ log[k].arg = dir

\* The outcome the claim gives to the exit status of the last call.
Mapped(name, log) ==
    IF Status(log, LastCall(log)) = "0" THEN Success(name)
    ELSE Failure(name, Captured(log, LastCall(log)))

\* A failed configure step is not followed by the build step.
ConfigureGates(log) ==
    \A k \in ToolCalls(log) :
        (log[k].op = "cmake" /\ Status(log, k) # "0") =>
            "cmake --build" \notin Ops(log)

\* C33 (as claimed): every run of a shell, ndk-build or CMake build test
\* prepares its build directory, calls its tool and yields one outcome,
\* Success when the tool exits 0 and Failure with the captured output
\* otherwise; a failed configure step of CMake is not followed by the build.
C33_ExitStatusAlwaysMapped ==
    \A i \in DOMAIN items :
        LET log == items[i].out.log
            test == items[i].test
        IN  (Ran(i) /\ test.cls \in HelperClasses) =>
               /\ Prepared(log, join(OutDir, test.name))
               /\ ToolCalls(log) # {}
               /\ items[i].out.raw = <<Mapped(test.name, log)>>
               /\ ConfigureGates(log)

\* The versions of cmake that _run_cmake_build_test refuses.
TooOld == {VersionText(<<3, m>>) : m \in 0..5}

\* The run is skipped before its tool is called: build.sh on Windows, before
\* the directory is prepared, and CMake without a cmake of version 3.6.
SkippedRun(test, log) ==
    IF test.cls = "ShellBuildTest" /\ Ev("os.name", "nt") \in Range(log)
    THEN <<"build.sh tests are not supported on Windows">>
    ELSE IF test.cls = "CMakeBuildTest" /\ Status(log, LastCall(log)) # "0"
            /\ log[LastCall(log)].op = "cmake --version"
    THEN <<"cmake executable not found">>
    ELSE IF test.cls = "CMakeBuildTest" /\ Captured(log, LastCall(log)) \in TooOld
            /\ log[LastCall(log)].op = "cmake --version"
    THEN <<"cmake 3.6 or above required">>
    ELSE <<>>

\* C33 (amended): every run of a shell, ndk-build or CMake build test yields
\* one outcome.  A build.sh test on Windows yields Skipped and neither
\* prepares a directory nor calls a tool.  Every other run first removes its
\* build directory and copies the sources in; a CMake test whose
\* 'cmake --version' exits nonzero or reports a version below 3.6 then
\* yields Skipped without configuring or building; otherwise the tool is
\* called and its exit status decides: 0 gives Success, nonzero gives
\* Failure with the captured output, and a nonzero exit of the configure
\* step of CMake gives Failure without running the build step.
C33_ExitStatusMapped ==
    \A i \in DOMAIN items :
        LET log == items[i].out.log
            test == items[i].test
            raw == items[i].out.raw
        IN  (Ran(i) /\ test.cls \in HelperClasses) =>
               IF Ev("os.name", "nt") \in Range(log)
               THEN /\ raw = <<Skipped(test.name, SkippedRun(test, log)[1])>>
                    /\ test.cls = "ShellBuildTest"
                    /\ Ops(log) \cap BuildOps = {}
               ELSE /\ Prepared(log, join(OutDir, test.name))
                    /\ ToolCalls(log) # {}
                    /\ IF SkippedRun(test, log) # <<>>
                       THEN /\ raw = <<Skipped(test.name, SkippedRun(test, log)[1])>>
                            /\ Ops(log) \cap {"cmake", "cmake --build"} = {}
                       ELSE /\ raw = <<Mapped(test.name, log)>>
                            /\ log[LastCall(log)].op # "cmake --version"
                            /\ ConfigureGates(log)

\* A CMake test whose configure step exited nonzero: Failure with the
\* captured output, the directory prepared, the build step not run.
C33_Witness ==
    \E i \in DOMAIN items :
        /\ Ran(i)
        /\ items[i].test.cls = "CMakeBuildTest"
        /\ items[i].out.raw = <<Failure(items[i].test.name, "out")>>
        /\ Prepared(items[i].out.log, join(OutDir, items[i].test.name))
        /\ items[i].out.log[LastCall(items[i].out.log)].op = "cmake"
        /\ Status(items[i].out.log, LastCall(items[i].out.log)) = "1"

\* A build.sh test skipped on Windows: no directory prepared.
C33_WitnessWindows ==
    \E i \in DOMAIN items :
        /\ Ran(i)
        /\ items[i].test.cls = "ShellBuildTest"
        /\ isinstance(items[i].out.raw[1], "Skipped")
        /\ Ev("os.name", "nt") \in Range(items[i].out.log)
        /\ "copytree" \notin Ops(items[i].out.log)

\* A CMake test skipped for a cmake of version 3.5, its directory prepared.
C33_WitnessOldCMake ==
    \E i \in DOMAIN items :
        /\ Ran(i)
        /\ items[i].test.cls = "CMakeBuildTest"
        /\ items[i].out.raw = <<Skipped(items[i].test.name, "cmake 3.6 or above required")>>
        /\ Prepared(items[i].out.log, join(OutDir, items[i].test.name))
        /\ Status(items[i].out.log, LastCall(items[i].out.log)) = "0"


(***************************************************************************)
(* Properties of the directories of concurrent work items.                 *)
(***************************************************************************)
\* The local build directories and remote working directories named by the
\* preparation, the ensure-directory and the removal commands of a log.
DirsIn(log) ==
    {log[k].arg : k \in {j \in DOMAIN log :
                            log[j].op \in {"rmtree", "copytree", "ensure", "rm"}}}

\* The directories a work item may prepare or remove, under some answer of
\* the tools and the device.
DirsOf(i) ==
    UNION {DirsIn(out.log) :
              out \in Behaviours(items[i].suite, items[i].test, run_filters)}

InFlight == {worker[w] : w \in DOMAIN worker} \ {0}

NamesUniqueWithinSuites ==
    \A suite \in DOMAIN tests : \A j, k \in DOMAIN tests[suite] :
        tests[suite][j].name = tests[suite][k].name => j = k

\* C34: when the names of the tests are unique within each suite, two work
\* items that are executed at the same time never prepare or remove the
\* same local build directory or the same remote working directory.
C34_ConcurrentItemsDisjointDirs ==
    NamesUniqueWithinSuites =>
        \A i, j \in InFlight : i # j => DirsOf(i) \cap DirsOf(j) = {}

\* Work items of one suite, executed at the same time, have directories of
\* their own.
C34_SameSuiteDisjointDirs ==
    \A i, j \in InFlight :
        (i # j /\ items[i].suite = items[j].suite) => DirsOf(i) \cap DirsOf(j) = {}

C34_WitnessSameSuite ==
    \E i, j \in InFlight :
        /\ i # j
        /\ items[i].suite = items[j].suite
        /\ DirsOf(i) # {}
        /\ DirsOf(j) # {}


(***************************************************************************)
(* Properties of the status of outcomes.                                   *)
(***************************************************************************)
\* Every outcome a finished work item yielded or returned, and what the
\* fixup makes of each of them.
Outcomes ==
    UNION {Range(items[i].out.raw) \cup Range(items[i].out.results) : i \in Done}

Fixed == {_fixup_expected_failure(r, a[1], a[2]) : r \in Outcomes, a \in FixupArgs}

\* C35: no outcome both passed and failed; an outcome neither passed nor
\* failed exactly when it is a Skipped; Success and ExpectedFailure passed,
\* Failure and UnexpectedSuccess failed; and the fixup turns a Failure
\* (failed) into an ExpectedFailure (passed) and a Success (passed) into an
\* UnexpectedSuccess (failed), in the fixup itself and in the list a work
\* item with a non-null build_broken returns.
C35_StatusConsistent ==
    /\ \A r \in Outcomes \cup Fixed :
          /\ ~(passed(r) /\ failed(r))
          /\ (~passed(r) /\ ~failed(r)) <=> isinstance(r, "Skipped")
          /\ passed(r) <=> r.variant \in {"Success", "ExpectedFailure"}
          /\ failed(r) <=> r.variant \in {"Failure", "UnexpectedSuccess"}
    /\ \A r \in Outcomes : \A a \in FixupArgs :
          LET f == _fixup_expected_failure(r, a[1], a[2])
          IN  /\ isinstance(r, "Failure") =>
                    (failed(r) /\ isinstance(f, "ExpectedFailure") /\ passed(f))
              /\ isinstance(r, "Success") =>
                    (passed(r) /\ isinstance(f, "UnexpectedSuccess") /\ failed(f))
    /\ \A i \in Returned :
          BrokenPair(i)[1] # None =>
              \A k \in DOMAIN items[i].out.raw :
                  LET r == items[i].out.raw[k]
                      f == items[i].out.results[k]
                  IN  r.variant \in {"Failure", "Success"} =>
                          /\ passed(r) <=> failed(f)
                          /\ failed(r) <=> passed(f)

\* A device test declared broken for the build whose first case fails and
\* whose second passes: the returned list inverts the status of both.
C35_Witness ==
    \E i \in Returned :
        /\ BrokenPair(i) = <<"clang", "b/123">>
        /\ items[i].out.raw = <<Failure("a.t1", "out"), Success("a.t2")>>
        /\ items[i].out.results = <<ExpectedFailure("a.t1", "clang", "b/123"),
                                    UnexpectedSuccess("a.t2", "clang", "b/123")>>

\* A Skipped outcome, neither passed nor failed, left as it is in the list
\* of a test declared broken.
C35_WitnessSkipped ==
    \E i \in Returned :
        /\ BrokenPair(i)[1] # None
        /\ \E k \in DOMAIN items[i].out.raw :
              /\ isinstance(items[i].out.raw[k], "Skipped")
              /\ items[i].out.results[k] = items[i].out.raw[k]


(***************************************************************************)
(* Properties of the filter in the transfer step.                          *)
(***************************************************************************)
\* The executables of the product directory that the filter rejects.
Rejected(test, test_filters) ==
    {FileName(test.libs.files[k]) : k \in
        {j \in DOMAIN test.libs.files :
            /\ ~endswith_so(test.libs.files[j])
            /\ ~filter(test_filters,
                       _make_subtest_name(test.name, FileName(test.libs.files[j])))}}

\* The transfer of the protocol at p went through its whole directory: it
\* ended with the error of no executable, or its first case was looked at.
TransferEnds(log, p) ==
    {k \in p..ProtocolEnd(log, p) :
        \/ log[k] = Ev("raise", "Could not find any test executables.")
        \/ log[k].op \in {"run_unsupported", "unsupported"}}

Pushes(log, p, upto) ==
    {k \in ProtocolCalls(log, p) : log[k].op = "push" /\ k < upto}

\* C36: in every run of the device protocol an executable the filter
\* rejects is neither pushed nor chmod-ed nor executed; when the transfer
\* went through the whole product directory every .so library was pushed
\* once, before the transfer ended, whether or not the filter names it; and
\* when no executable remains the error is raised after the push of every
\* library, the removal of the remote directory follows it, and the run of
\* the test ends with that error.
C36_FilterOnExecutablesOnly ==
    \A i \in Done :
        LET out == items[i].out
            log == out.log
            test == items[i].test
        IN  test.cls = "DeviceTest" =>
               /\ \A k \in DOMAIN log :
                     log[k].op \in {"push", "chmod", "exec"} =>
                         log[k].arg \notin Rejected(test, run_filters)
               /\ \A p \in Protocols(log) : \A e \in TransferEnds(log, p) :
                     \A lib \in LibraryNames(test) :
                         Cardinality({k \in Pushes(log, p, e) : log[k].arg = lib}) = 1
               /\ \A p \in Protocols(log) :
                     (Executables(test, run_filters) = {} /\ TransferEnds(log, p) # {}) =>
                         /\ \A e \in TransferEnds(log, p) :
                               /\ log[e] = Ev("raise", "Could not find any test executables.")
                               /\ \E j \in Removals(log, p) : e < j
                         /\ out.raised
                         /\ out.raw = <<>>

\* The filter names a library and an executable: the library is pushed all
\* the same, the executable is left out, the other executable is run.
C36_Witness ==
    \E i \in Done :
        LET log == items[i].out.log
        IN  /\ run_filters = {"a.libfoo.so", "a.t1"}
            /\ Ev("push", "libfoo.so") \in Range(log)
            /\ Ev("push", "libbar.so") \in Range(log)
            /\ Ev("exec", "t2") \in Range(log)
            /\ Rejected(items[i].test, run_filters) = {"t1"}
            /\ ~items[i].out.raised

\* Every executable rejected and a library named by the filter: both
\* libraries pushed, then the error, then the removal.
C36_WitnessNoExecutable ==
    \E i \in Done :
        LET log == items[i].out.log
        IN  /\ run_filters = {"a.libbar.so", "a.t1", "a.t2"}
            /\ Rejected(items[i].test, run_filters) = {"t1", "t2"}
            /\ Len(log) >= 4
            /\ log[Len(log) - 3] = Ev("push", "libfoo.so")
            /\ log[Len(log) - 2] = Ev("push", "libbar.so")
            /\ log[Len(log) - 1] = Ev("raise", "Could not find any test executables.")
            /\ log[Len(log)].op = "rm"
            /\ items[i].out.raised


(***************************************************************************)
(* Properties of the two levels of policy of a device test.                *)
(***************************************************************************)
\* C37: in the list returned for a device test whose build_broken is
\* non-null, case by case in the order of the run: a case run_broken
\* classified is returned as ExpectedFailure or UnexpectedSuccess with the
\* label and bug run_broken answered; a case run_unsupported skipped is
\* returned as the Skipped it was, reason included; a case that passed and
\* that run_broken left alone is returned as UnexpectedSuccess, and one
\* that failed as ExpectedFailure, both with the label and bug of
\* build_broken.
C37_PolicyLayering ==
    \A i \in Returned :
        LET out == items[i].out
            test == items[i].test
            build == BrokenPair(i)
            run == PerCase(test, out.log, 1)
            got == OfCases(test, out.results)
        IN  (test.cls = "DeviceTest" /\ build[1] # None /\ UnsupportedLabel(i) = None) =>
               /\ Len(got) = Len(run)
               /\ \A k \in DOMAIN run :
                     CASE run[k].variant \in {"ExpectedFailure", "UnexpectedSuccess"} ->
                             got[k] = run[k]
                       [] run[k].variant = "Skipped" ->
                             /\ Shown(got[k]) = run[k]
                             /\ got[k] = OfCases(test, out.raw)[k]
                       [] run[k].variant = "Success" ->
                             got[k] = UnexpectedSuccess(run[k].test_name, build[1], build[2])
                       [] run[k].variant = "Failure" ->
                             got[k] = ExpectedFailure(run[k].test_name, build[1], build[2])

\* Build-level (clang, b/123) over run-level (gcc, b/7): the first case is
\* known broken at run level and fails, the second passes and is remapped.
C37_Witness ==
    \E i \in Returned :
        /\ items[i].test.cls = "DeviceTest"
        /\ BrokenPair(i) = <<"clang", "b/123">>
        /\ items[i].out.raw = <<ExpectedFailure("a.t1", "gcc", "b/7"), Success("a.t2")>>
        /\ items[i].out.results =
              <<ExpectedFailure("a.t1", "gcc", "b/7"),
                UnexpectedSuccess("a.t2", "clang", "b/123")>>

\* A case skipped by run_unsupported next to a failing one.
C37_WitnessSkipped ==
    \E i \in Returned :
        /\ items[i].test.cls = "DeviceTest"
        /\ items[i].out.results =
              <<Skipped("a.t1", "test unsupported for old-device"),
                ExpectedFailure("a.t2", "clang", "b/123")>>


(***************************************************************************)
(* Properties of a failing ensure-directory command.                       *)
(***************************************************************************)
\* C38: in every run of the device protocol, when the ensure-directory
\* command raises it is the last call of the test (no push, chmod,
\* execution or removal follows it), that run of the protocol yields no
\* outcome and the run of the test ends with the exception; when it
\* returns, the transfer is attempted next (a push, or the error of a
\* transfer that pushes nothing) and the removal is issued once; and a
\* removal is issued only in a run of the protocol, for the directory that
\* was ensured.
C38_RemovalIffEnsured ==
    \A i \in Done :
        LET out == items[i].out
            log == out.log
        IN  /\ \A p \in Protocols(log) :
                  IF p = Len(log)
                  THEN /\ out.raised
                       /\ out.results = <<>>
                       /\ ProtocolCalls(log, p) = {p}
                       /\ Len(PerCase(items[i].test, log, p)) = 0
                  ELSE /\ log[p + 1].op \in {"push", "raise"}
                       /\ Cardinality(Removals(log, p)) = 1
            /\ \A j \in DOMAIN log :
                  log[j].op = "rm" =>
                      \E p \in Protocols(log) :
                          /\ j \in Removals(log, p)
                          /\ p + 1 < j
                          /\ log[j].arg = log[p].arg

\* The ensure-directory command of the only protocol raises: no device
\* command but that one, and run is left by the exception.
C38_Witness ==
    /\ pc = "raised"
    /\ \E i \in Done :
          LET log == items[i].out.log
          IN  /\ items[i].out.raised
              /\ log[Len(log)].op = "ensure"
              /\ DeviceCalls(log) = {Len(log)}
              /\ device = NoDirs

\* Both descriptors: the protocol of the ndk-build pass is complete and the
\* ensure-directory command of the CMake pass raises.
C38_WitnessSecondPass ==
    \E i \in Done :
        LET log == items[i].out.log
        IN  /\ items[i].out.raised
            /\ log[Len(log)] = Ev("ensure", "/data/local/tmp/cmake-tests/a")
            /\ Cardinality({j \in DOMAIN log : log[j].op = "rm"}) = 1


(***************************************************************************)
(* Properties of a call of add_suite whose scan raises.                    *)
(***************************************************************************)
\* The calls of add_suite whose scan raised.
Failed_adds == {k \in DOMAIN added : added[k].error \notin {None, "KeyError"}}

\* The names registered by the calls of add_suite before the k-th.
RegisteredBefore(k) == {added[j].name : j \in {m \in Accepted_adds : m < k}}

\* C39: a call of add_suite whose scan raises registers nothing: the
\* registered suites are the names of the calls that returned; a call is
\* rejected as a duplicate exactly when an earlier call that returned
\* registered its name, so never because of an earlier call whose scan
\* raised; and a run submits one work item for every test of a registered
\* suite and none under a name that only failed calls carried.
C39_FailedScanRegistersNothing ==
    /\ DOMAIN tests = {added[k].name : k \in Accepted_adds}
    /\ \A k \in DOMAIN added :
          (added[k].error = "KeyError") <=> (added[k].name \in RegisteredBefore(k))
    /\ \A k \in Failed_adds :
          /\ added[k].name \notin RegisteredBefore(k)
          /\ (\A j \in Accepted_adds : added[j].name # added[k].name) =>
                /\ added[k].name \notin DOMAIN tests
                /\ added[k].name \notin DOMAIN results
                /\ \A i \in DOMAIN items : items[i].suite # added[k].name
    /\ pc \notin {"idle", "submit"} => Len(items) = NumTests

\* A scan raised under a name no call registered, and a run over the one
\* registered suite returned with that suite's results alone.
C39_Witness ==
    /\ pc = "returned"
    /\ Len(added) = 2
    /\ added[1].error = None
    /\ added[2].error = "RuntimeError"
    /\ added[2].name # added[1].name
    /\ DOMAIN tests = {added[1].name}
    /\ Len(items) = 1
    /\ DOMAIN results = {added[1].name}
    /\ returned = <<TRUE, results>>

\* A later call with the name of the failed call is accepted.
C39_WitnessSameNameAccepted ==
    /\ pc = "returned"
    /\ Len(added) = 2
    /\ added[1].error = "RuntimeError"
    /\ added[2] = [name |-> added[1].name, error |-> None]
    /\ Len(items) = Len(tests[added[1].name])
    /\ \A i \in DOMAIN items : items[i].suite = added[1].name /\ items[i].done
    /\ returned = <<TRUE, results>>

====
